---- MODULE Spec2Model ----
(***************************************************************************)
(* A model of the h5 library: the array interface (hyperslabs, views,      *)
(* stride reconciliation, dataset read/write) and the type-driven codecs   *)
(* of the STL containers built on top of it.                               *)
(*                                                                         *)
(* C++ vectors are modelled as sequences: the C++ index i is the index     *)
(* i + 1 of the sequence.                                                  *)
(***************************************************************************)
EXTENDS Integers, Sequences, FiniteSets, TLC

VARIABLES
  spc,          \* position of the stride reconciliation call: "idle" | "call" | "done"
  np_strides,   \* argument np_strides of get_parent_shape_and_h5_strides
  view_shape,   \* shape of the view; view_size is its product (check_strides)
  strides_out,  \* value returned by get_parent_shape_and_h5_strides
  io_done,      \* the calls of the array interface scenario made so far
  io_ok,        \* every call made so far returned normally
  file,         \* root group of the file of the array interface scenario
  data,         \* buffer the datasets are written from
  view_2,       \* view of data selecting the hyperslab S
  data_in_2,    \* buffer read in full from the dataset written from view_2
  data_in_3,    \* buffer read through S from the dataset holding all of data
  cpc,          \* position of the codec scenario: "idle" | "write_1" | "write_2" | "read" | "done"
  root,         \* group the codec scenario writes to and reads from
  ckey,         \* name written and read
  first,        \* << <<T, x>> >>: type and value of the earlier write, <<>> if there is none
  second,       \* <<T, x>>: type and value of the later write
  dest,         \* variable of type second.T the name is read into
  dest_0,       \* what dest held before the read
  w_ok,         \* every h5_write so far returned normally
  r_ok,         \* the h5_read returned normally
  ser_pc,       \* position of the serialization scenario
  ser_x,        \* <<T, x>>: type and value serialized or written
  ser_mem,      \* root group of the memory file that is written to
  ser_buf,      \* byte buffer: the file image returned by serialize / as_buffer
  ser_out,      \* [ok, val]: result of deserialize / of the read from the file built from ser_buf
  ser_ref,      \* [ok, val]: result of the same read from the file the bytes came from
  op_pc,        \* position of the single-call scenarios: "idle" | "call" | "done" | "read_back"
  op_g,         \* group (or object) the call acts on
  op_g_0,       \* what op_g was before the call
  op_in,        \* arguments of the call
  op_out        \* result of the call

stridesVars == <<spc, np_strides, view_shape, strides_out>>

ioVars == <<io_done, io_ok, file, data, view_2, data_in_2, data_in_3>>

codecVars == <<cpc, root, ckey, first, second, dest, dest_0, w_ok, r_ok>>

serialVars == <<ser_pc, ser_x, ser_mem, ser_buf, ser_out, ser_ref>>

opVars == <<op_pc, op_g, op_g_0, op_in, op_out>>

vars == <<spc, np_strides, view_shape, strides_out,
          io_done, io_ok, file, data, view_2, data_in_2, data_in_3,
          cpc, root, ckey, first, second, dest, dest_0, w_ok, r_ok,
          ser_pc, ser_x, ser_mem, ser_buf, ser_out, ser_ref,
          op_pc, op_g, op_g_0, op_in, op_out>>

(***************************************************************************)
(* Bounds of the inputs explored.                                          *)
(***************************************************************************)
MaxRank == 3
MaxStride == 4
MaxExtent == 2
MaxIoRank == 3
MaxDim == 5
MaxPoints == 6
LongLen == 11

(***************************************************************************)
(* Helpers on sequences of numbers.                                        *)
(***************************************************************************)
\* Product of s[from .. Len(s)] (1 if the range is empty).
RECURSIVE ProductFrom(_, _)
ProductFrom(s, from) == IF from > Len(s) THEN 1 ELSE s[from] * ProductFrom(s, from + 1)

Product(s) == ProductFrom(s, 1)

\* s with s[k] set to x
SetAt(s, k, x) == [i \in 1..Len(s) |-> IF i = k THEN x ELSE s[i]]

Rep(n, x) == [i \in 1..n |-> x]

SeqsOfLen(S, n) == [1..n -> S]

\* A slip of the gcd: Euclid's algorithm stops after its first step.
gcd_one_step(a, b) == IF b = 0 THEN a ELSE b

\* std::gcd on non-negative values (gcd(0, 0) = 0).
RECURSIVE gcd(_, _)
gcd(a, b) == IF b = 0 THEN a ELSE gcd(b, a % b)

(***************************************************************************)
(* get_parent_shape_and_h5_strides                                         *)
(***************************************************************************)
\* A slip of the inner loop: the gcd is taken of h5_strides[u] alone.
GcdLoopNoScan(g, h, v) == g

\* inner loop: for (int v = u - 1; v >= 0; --v) gcd = std::gcd(gcd, h5_strides[v]);
RECURSIVE GcdLoop(_, _, _)
GcdLoop(g, h, v) == IF v < 0 THEN g ELSE GcdLoop(gcd(g, h[v + 1]), h, v - 1)

\* outer loop: for (int u = rank - 2; u >= 0; --u) { ... }
\* st.exact records that every division done so far left no remainder,
\* st.fault that a division by zero was reached (the loop stops there).
RECURSIVE ReconcileLoop(_, _)
ReconcileLoop(st, u) ==
  IF u < 0 THEN st
  ELSE LET g == GcdLoop(st.h5_strides[u + 1], st.h5_strides, u - 1)
       IN  IF g = 0
           THEN [st EXCEPT !.parent_shape = SetAt(st.parent_shape, u + 2, 0), !.fault = TRUE]
           ELSE ReconcileLoop(
                  [parent_shape |-> SetAt(st.parent_shape, u + 2, g),
                   h5_strides   |-> [i \in 1..Len(st.h5_strides) |->
                                       IF i <= u + 1 THEN st.h5_strides[i] \div g
                                                     ELSE st.h5_strides[i]],
                   exact        |-> st.exact /\ \A i \in 1..(u + 1) : st.h5_strides[i] % g = 0,
                   fault        |-> FALSE],
                  u - 1)

\* A slip of the function: the empty view is not set apart and goes through
\* the loops.
get_parent_shape_and_h5_strides_general_only(np, rank, view_size) ==
  IF rank = 0
  THEN [parent_shape |-> <<>>, h5_strides |-> <<>>, exact |-> TRUE, fault |-> FALSE]
  ELSE ReconcileLoop(
         [parent_shape |-> [i \in 1..rank |-> IF i = 1 THEN view_size ELSE 0],
          h5_strides   |-> [i \in 1..rank |-> np[i]],
          exact        |-> TRUE,
          fault        |-> FALSE],
         rank - 2)

get_parent_shape_and_h5_strides(np, rank, view_size) ==
  IF rank = 0
  THEN [parent_shape |-> <<>>, h5_strides |-> <<>>, exact |-> TRUE, fault |-> FALSE]
  ELSE IF view_size = 0
  THEN [parent_shape |-> Rep(rank, 0), h5_strides |-> Rep(rank, 1), exact |-> TRUE, fault |-> FALSE]
  ELSE ReconcileLoop(
         [parent_shape |-> [i \in 1..rank |-> IF i = 1 THEN view_size ELSE 0],
          h5_strides   |-> [i \in 1..rank |-> np[i]],
          exact        |-> TRUE,
          fault        |-> FALSE],
         rank - 2)

(***************************************************************************)
(* std::string and C strings.  A string is the sequence of its character   *)
(* codes; a C string ends before the first NUL (code 0).                   *)
(***************************************************************************)
\* std::string::c_str() as read by the HDF5 library
RECURSIVE c_str(_)
c_str(s) == IF s = <<>> \/ Head(s) = 0 THEN <<>> ELSE <<Head(s)>> \o c_str(Tail(s))

\* std::to_string(i) for i >= 0
RECURSIVE to_string(_)
to_string(i) == IF i < 10 THEN <<48 + i>> ELSE to_string(i \div 10) \o <<48 + (i % 10)>>

\* "view_1", "view_2"
s_view_1 == <<118, 105, 101, 119, 95, 49>>
s_view_2 == <<118, 105, 101, 119, 95, 50>>
\* "__complex__", "1"
s_complex == <<95, 95, 99, 111, 109, 112, 108, 101, 120, 95, 95>>
s_one == <<49>>
\* "Format" and the tags "List", "Dict", "PythonTupleWrap"
s_Format == <<70, 111, 114, 109, 97, 116>>
s_List == <<76, 105, 115, 116>>
s_TRIQS_HDF5_data_scheme ==
  <<84, 82, 73, 81, 83, 95, 72, 68, 70, 53, 95, 100, 97, 116, 97, 95, 115, 99, 104, 101, 109, 101>>
s_Dict == <<68, 105, 99, 116>>
s_PythonTupleWrap == <<80, 121, 116, 104, 111, 110, 84, 117, 112, 108, 101, 87, 114, 97, 112>>
\* "key", "val", "object", "shape"
s_key == <<107, 101, 121>>
s_val == <<118, 97, 108>>
s_object == <<111, 98, 106, 101, 99, 116>>
s_shape == <<115, 104, 97, 112, 101>>

(***************************************************************************)
(* HDF5 datatypes (object.cpp, detail::hid_t_of).  A datatype is a record  *)
(* of its class and its size in bytes; H5Tequal is the equality of these   *)
(* records.  std::complex<double> maps to the datatype of double.          *)
(***************************************************************************)
H5T_NATIVE_INT    == [cls |-> "INTEGER", size |-> 4]
H5T_NATIVE_LONG   == [cls |-> "INTEGER", size |-> 8]
H5T_NATIVE_DOUBLE == [cls |-> "FLOAT", size |-> 8]
\* H5T_C_S1 with H5T_VARIABLE size (written -1) and UTF8 character set
str_dt            == [cls |-> "STRING", size |-> -1]
\* the compound datatype {"r": double, "i": double} of a complex number
cplx_cmpd_dt      == [cls |-> "COMPOUND", size |-> 16]

H5Tget_class(dt) == dt.cls

hdf5_type_equal(dt1, dt2) ==
  IF H5Tget_class(dt1) = "STRING" THEN H5Tget_class(dt2) = "STRING" ELSE dt1 = dt2

\* a floating point datatype HDF5 can store that hid_t_of maps no C++ type to
H5T_IEEE_F16LE == [cls |-> "FLOAT", size |-> 2]

\* h5_name_table after init_h5_name_table(): the datatypes of its entries
\* (char, short, int, long, float, double, long double, std::string, dcplx_t; the
\* unsigned and complex types have the datatype records of their signed and
\* real counterparts)
h5_name_table ==
  { [cls |-> "INTEGER", size |-> 1], [cls |-> "INTEGER", size |-> 2],
    H5T_NATIVE_INT, H5T_NATIVE_LONG,
    [cls |-> "FLOAT", size |-> 4], H5T_NATIVE_DOUBLE, [cls |-> "FLOAT", size |-> 16],
    str_dt, cplx_cmpd_dt }

\* get_name_of_h5_type(dt) returns normally: dt is found in the table
get_name_of_h5_type_ok(dt) == \E x \in h5_name_table : hdf5_type_equal(dt, x)

(***************************************************************************)
(* hyperslab (array_interface.hpp)                                         *)
(***************************************************************************)
\* hyperslab(int rank, bool is_complex)
hyperslab(rank, is_complex) ==
  LET n == rank + (IF is_complex THEN 1 ELSE 0)
  IN  [offset |-> Rep(n, 0),
       stride |-> Rep(n, 1),
       count  |-> [i \in 1..n |-> IF is_complex /\ i = n THEN 2 ELSE 0],
       block  |-> Rep(n, 1)]

\* hyperslab() = default
EmptySlab == [offset |-> <<>>, stride |-> <<>>, count |-> <<>>, block |-> <<>>]

slab_rank(sl) == Len(sl.count)

slab_empty(sl) == sl.count = <<>>

\* A slip of shape(): the block sizes are left out.
slab_shape_count_only(sl) == sl.count

\* v_t shape(): count[d] * block[d]
slab_shape(sl) == [i \in 1..slab_rank(sl) |-> sl.count[i] * sl.block[i]]

slab_size(sl) == Product(slab_shape(sl))

\* What shape() can return: std::transform reads rank() entries of block; with
\* fewer entries in block it reads beyond its end (undefined), and the call
\* faults or takes any value for the entries that are not there.
shape_outcomes(sl, JunkValues) ==
  IF Len(sl.block) >= slab_rank(sl)
  THEN { [fault |-> FALSE, shape |-> slab_shape(sl)] }
  ELSE { [fault |-> TRUE, shape |-> <<>>] } \cup
       { [fault |-> FALSE,
          shape |-> [i \in 1..slab_rank(sl) |->
                       sl.count[i] * (IF i <= Len(sl.block) THEN sl.block[i] ELSE junk[i])]] :
         junk \in SeqsOfLen(JunkValues, slab_rank(sl)) }

(***************************************************************************)
(* array_view (array_interface.hpp): the pointer start is modelled by the  *)
(* buffer buf it points to.                                                *)
(***************************************************************************)
array_view(ty, buf, rank, is_complex) ==
  [ty           |-> ty,
   buf          |-> buf,
   parent_shape |-> [i \in 1..(rank + (IF is_complex THEN 1 ELSE 0)) |->
                       IF is_complex /\ i = rank + 1 THEN 2 ELSE 0],
   slab         |-> hyperslab(rank, is_complex),
   is_complex   |-> is_complex]

view_rank(v) == slab_rank(v.slab)

(***************************************************************************)
(* The HDF5 library calls used by the array interface: dataspaces,         *)
(* hyperslab selections and the element transfer between selections.      *)
(* A dataspace is [scalar, extent, sel]: sel is the sequence of the        *)
(* selected positions (1-based, row-major order) in selection order, and   *)
(* inside tells whether the selection lies within the extent.              *)
(***************************************************************************)
\* positions selected along one dimension, 0-based, in increasing order
\* (sl.block.empty() ? nullptr : sl.block.data()) as H5Sselect_hyperslab takes
\* it: without a block array every block is a single element
block_data(sl) == IF sl.block = <<>> THEN Rep(Len(sl.count), 1) ELSE sl.block

DimCoords(o, st, c, b) == [k \in 1..(c * b) |-> o + ((k - 1) \div b) * st + ((k - 1) % b)]

RECURSIVE Flatten(_)
Flatten(ss) == IF ss = <<>> THEN <<>> ELSE Head(ss) \o Flatten(Tail(ss))

\* row-major enumeration of the hyperslab sl over extent, from dimension d on
RECURSIVE SelectFrom(_, _, _, _)
SelectFrom(extent, sl, d, base) ==
  IF d > Len(extent) THEN <<base + 1>>
  ELSE LET cs == DimCoords(sl.offset[d], sl.stride[d], sl.count[d], block_data(sl)[d])
       IN  Flatten([k \in 1..Len(cs) |-> SelectFrom(extent, sl, d + 1, base * extent[d] + cs[k])])

\* H5Sselect_hyperslab(space, H5S_SELECT_SET, offset, stride, count, block) succeeds
H5Sselect_ok(extent, sl) ==
  /\ Len(sl.offset) = Len(extent) /\ Len(sl.stride) = Len(extent)
  /\ Len(sl.count) = Len(extent) /\ Len(block_data(sl)) = Len(extent)
  /\ \A d \in 1..Len(extent) :
       /\ sl.stride[d] >= 1
       /\ (sl.count[d] > 1 => sl.stride[d] >= block_data(sl)[d])

SlabInside(extent, sl) ==
  \A d \in 1..Len(extent) :
    (sl.count[d] * block_data(sl)[d] > 0)
      => sl.offset[d] + (sl.count[d] - 1) * sl.stride[d] + block_data(sl)[d] <= extent[d]

H5Screate_scalar == [scalar |-> TRUE, extent |-> <<>>, sel |-> <<1>>, inside |-> TRUE]

\* H5Screate_simple(rank, dims, nullptr): everything selected
H5Screate_simple(dims) ==
  [scalar |-> FALSE, extent |-> dims,
   sel |-> [i \in 1..Product(dims) |-> i], inside |-> TRUE]

H5Sselect_hyperslab(space, sl) ==
  [space EXCEPT !.sel = IF \E d \in 1..Len(sl.count) : sl.count[d] * block_data(sl)[d] = 0
                       THEN <<>> ELSE SelectFrom(space.extent, sl, 1, 0),
                !.inside = SlabInside(space.extent, sl)]

H5Sget_simple_extent_npoints(space) == IF space.scalar THEN 1 ELSE Product(space.extent)

\* H5Dwrite / H5Dread succeed: both selections hold the same number of
\* elements and lie within their extents
H5D_transfer_ok(mem_space, file_space) ==
  /\ Len(mem_space.sel) = Len(file_space.sel)
  /\ mem_space.inside /\ file_space.inside

\* H5Dwrite: the i-th selected element of memory goes to the i-th selected
\* element of the file
H5Dwrite(ds_data, file_space, buf, mem_space) ==
  [p \in 1..Len(ds_data) |->
     IF \E i \in 1..Len(file_space.sel) : file_space.sel[i] = p
     THEN buf[mem_space.sel[CHOOSE i \in 1..Len(file_space.sel) : file_space.sel[i] = p]]
     ELSE ds_data[p]]

\* H5Dread: the i-th selected element of the file goes to the i-th selected
\* element of memory
H5Dread(ds_data, file_space, buf, mem_space) ==
  [p \in 1..Len(buf) |->
     IF \E i \in 1..Len(mem_space.sel) : mem_space.sel[i] = p
     THEN ds_data[file_space.sel[CHOOSE i \in 1..Len(mem_space.sel) : mem_space.sel[i] = p]]
     ELSE buf[p]]

(***************************************************************************)
(* Nodes of a file: groups and datasets.  Every node has the same fields;  *)
(* children and attrs are functions from names to nodes / attributes; an   *)
(* attribute is [ty, shape, data].                                         *)
(***************************************************************************)
NoType == [cls |-> "NONE", size |-> 0]

NewGroup ==
  [kind |-> "group", ty |-> NoType, shape |-> <<>>, data |-> <<>>, chunk |-> <<>>,
   attrs |-> <<>>, children |-> <<>>]

NewDataset(ty, shape, chunk) ==
  [kind |-> "dataset", ty |-> ty, shape |-> shape,
   data |-> Rep(Product(shape), 0), chunk |-> chunk,
   attrs |-> <<>>, children |-> <<>>]

\* f with x mapped to y
Put(f, x, y) == [n \in (DOMAIN f) \cup {x} |-> IF n = x THEN y ELSE f[n]]

\* f without x
Drop(f, x) == [n \in (DOMAIN f) \ {x} |-> f[n]]

\* H5Lexists(id, name): 1 if the link exists, 0 if not, negative if the call
\* fails (no name given)
H5Lexists(g, cname) ==
  IF cname = <<>> THEN -1 ELSE IF cname \in DOMAIN g.children THEN 1 ELSE 0

\* group::has_key: the htri_t returned by H5Lexists converted to bool
has_key(g, key) == H5Lexists(g, c_str(key)) # 0

\* group::has_subgroup
has_subgroup(g, key) ==
  /\ has_key(g, key)
  /\ c_str(key) \in DOMAIN g.children
  /\ g.children[c_str(key)].kind = "group"

\* group::has_dataset
has_dataset(g, key) ==
  /\ has_key(g, key)
  /\ c_str(key) \in DOMAIN g.children
  /\ g.children[c_str(key)].kind = "dataset"

\* H5Dcreate2 / H5Gcreate2(id, name, ...) succeed: a name is given and no link
\* of that name exists
H5create_ok(g, cname) == cname # <<>> /\ cname \notin DOMAIN g.children

\* A slip of unlink: the existing link is kept.
unlink_nothing(g, key) == [ok |-> TRUE, g |-> g]

\* group::unlink(key, error_if_absent = false): the group after the call, and
\* whether the call returned normally (H5Ldelete fails without a name)
unlink(g, key) ==
  IF ~has_key(g, key) THEN [ok |-> TRUE, g |-> g]
  ELSE IF c_str(key) \notin DOMAIN g.children THEN [ok |-> FALSE, g |-> g]
  ELSE [ok |-> TRUE, g |-> [g EXCEPT !.children = Drop(g.children, c_str(key))]]

\* the attribute that H5Acreate2 with str_dtype() and a scalar dataspace and
\* H5Awrite of the C string make
StringAttr(str) == [ty |-> str_dt, shape |-> <<>>, data |-> <<c_str(str)>>]

\* H5LTfind_attribute(obj, name): 1 if the attribute exists, 0 if not
H5LTfind_attribute(obj, cname) == IF cname \in DOMAIN obj.attrs THEN 1 ELSE 0

\* A slip of H5Acreate2_ok: an existing attribute is replaced.
H5Acreate2_replaces(obj, cname) == cname # <<>>

\* H5Acreate2(obj, name, ...) returns a valid attribute: a name is given and
\* no attribute of that name exists
H5Acreate2_ok(obj, cname) == cname # <<>> /\ cname \notin DOMAIN obj.attrs

(***************************************************************************)
(* array_interface.cpp                                                     *)
(***************************************************************************)
\* make_mem_dspace
make_mem_dspace(v) ==
  IF view_rank(v) = 0 THEN [ok |-> TRUE, space |-> H5Screate_scalar]
  ELSE IF ~H5Sselect_ok(v.parent_shape, v.slab)
       THEN [ok |-> FALSE, space |-> H5Screate_simple(v.parent_shape)]
       ELSE [ok |-> TRUE, space |-> H5Sselect_hyperslab(H5Screate_simple(v.parent_shape), v.slab)]

\* max_chunk_size / chunk_size for max_chunk_size = 2^32 - 1 = 2 * 2147483647 + 1,
\* computed within 32-bit signed arithmetic (2 <= chunk_size < 2^30)
max_chunk_size_div(chunk_size) ==
  2 * (2147483647 \div chunk_size) + ((2 * (2147483647 % chunk_size) + 1) \div chunk_size)

Clamp(x, lo, hi) == IF x < lo THEN lo ELSE IF hi < x THEN hi ELSE x

\* the chunk loop of write: for (int i = v.rank() - 1; i >= 0; --i) { ... }
RECURSIVE ChunkLoop(_, _, _, _)
ChunkLoop(hs_shape, chunk_dims, chunk_size, i) ==
  IF i < 0 THEN chunk_dims
  ELSE LET max_dim == max_chunk_size_div(chunk_size)
           c       == Clamp(hs_shape[i + 1], 1, max_dim)
       IN  ChunkLoop(hs_shape, SetAt(chunk_dims, i + 1, c), chunk_size * c, i - 1)

\* write(group g, name, array_view v, bool compress): the group after the
\* call, and whether the call returned normally
write(g, name, v, compress) ==
  LET ul       == unlink(g, name)
      g1       == ul.g
      hs_shape == slab_shape(v.slab)
      chunk    == IF compress /\ view_rank(v) # 0
                  THEN ChunkLoop(hs_shape, Rep(view_rank(v), 0), v.ty.size, view_rank(v) - 1)
                  ELSE <<>>
      ds0      == NewDataset(v.ty, hs_shape, chunk)
      g2       == [g1 EXCEPT !.children = Put(g1.children, c_str(name), ds0)]
      mem      == make_mem_dspace(v)
      file_sp  == IF hs_shape = <<>> THEN H5Screate_scalar ELSE H5Screate_simple(hs_shape)
  IN  IF ~ul.ok THEN [ok |-> FALSE, g |-> g1]
      ELSE IF ~H5create_ok(g1, c_str(name)) THEN [ok |-> FALSE, g |-> g1]
      ELSE IF ~mem.ok THEN [ok |-> FALSE, g |-> g2]
      ELSE IF H5Sget_simple_extent_npoints(mem.space) > 0
              /\ ~H5D_transfer_ok(mem.space, file_sp)
      THEN [ok |-> FALSE, g |-> g2]
      ELSE LET ds1 == IF H5Sget_simple_extent_npoints(mem.space) > 0
                      THEN [ds0 EXCEPT !.data = H5Dwrite(ds0.data, file_sp, v.buf, mem.space)]
                      ELSE ds0
               ds2 == IF v.is_complex
                      THEN [ds1 EXCEPT !.attrs = Put(ds1.attrs, s_complex, StringAttr(s_one))]
                      ELSE ds1
           IN  [ok |-> TRUE, g |-> [g1 EXCEPT !.children = Put(g1.children, c_str(name), ds2)]]

\* get_dataset_info(group g, name)
get_dataset_info(ds) ==
  [lengths |-> ds.shape, ty |-> ds.ty, has_complex_attribute |-> s_complex \in DOMAIN ds.attrs]

\* the text "... Incompatible HDF5 types: " + get_name_of_h5_type(ty1) + " != "
\* + get_name_of_h5_type(ty2) is built without an exception
type_names_ok(ty1, ty2) == get_name_of_h5_type_ok(ty1) /\ get_name_of_h5_type_ok(ty2)

\* read(group g, name, array_view v, hyperslab sl = {}): whether the call
\* returned normally, whether it wrote the warning, and the buffer of v after
\* the call
\* the call; size_of_sl is what sl.size() returns
read_sized(g, name, v, sl, size_of_sl) ==
  IF ~has_dataset(g, name) THEN [ok |-> FALSE, warned |-> FALSE, buf |-> v.buf]
  ELSE
  LET ds       == g.children[c_str(name)]
      space0   == IF ds.shape = <<>> THEN H5Screate_scalar ELSE H5Screate_simple(ds.shape)
      sel_ok   == slab_empty(sl) \/ H5Sselect_ok(ds.shape, sl)
      file_sp  == IF slab_empty(sl) \/ ~sel_ok THEN space0 ELSE H5Sselect_hyperslab(space0, sl)
      ds_info  == get_dataset_info(ds)
      sl_size  == IF slab_empty(sl) THEN Product(ds_info.lengths) ELSE size_of_sl
      mem      == make_mem_dspace(v)
      soft     == ~hdf5_type_equal(v.ty, ds_info.ty)
      fail     == [ok |-> FALSE, warned |-> FALSE, buf |-> v.buf]
  IN  IF ~sel_ok THEN fail
      ELSE IF H5Tget_class(v.ty) # H5Tget_class(ds_info.ty) THEN fail
      ELSE IF soft /\ ~type_names_ok(v.ty, ds_info.ty) THEN fail
      ELSE IF sl_size # slab_size(v.slab) THEN [fail EXCEPT !.warned = soft]
      ELSE IF ~mem.ok THEN [fail EXCEPT !.warned = soft]
      ELSE IF H5Sget_simple_extent_npoints(file_sp) > 0
      THEN IF H5D_transfer_ok(mem.space, file_sp)
           THEN [ok |-> TRUE, warned |-> soft,
                 buf |-> H5Dread(ds.data, file_sp, v.buf, mem.space)]
           ELSE [fail EXCEPT !.warned = soft]
      ELSE [ok |-> TRUE, warned |-> soft, buf |-> v.buf]

\* A slip of read: the consistency checks are left out.
read_unchecked(g, name, v, sl) ==
  IF ~has_dataset(g, name) THEN [ok |-> FALSE, warned |-> FALSE, buf |-> v.buf]
  ELSE [ok |-> TRUE, warned |-> FALSE, buf |-> v.buf]

read(g, name, v, sl) == read_sized(g, name, v, sl, slab_size(sl))

\* write_slice(group g, name, array_view v, hyperslab sl): the group after
\* the call, and whether the call returned normally; size_of_sl is what
\* sl.size() returns
write_slice_sized(g, name, v, sl, size_of_sl) ==
  IF slab_empty(sl) THEN [ok |-> TRUE, g |-> g]
  ELSE IF slab_size(v.slab) # size_of_sl THEN [ok |-> FALSE, g |-> g]
  ELSE IF ~has_dataset(g, name) THEN [ok |-> FALSE, g |-> g]
  ELSE
  LET ds       == g.children[c_str(name)]
      ds_info  == get_dataset_info(ds)
      space0   == IF ds.shape = <<>> THEN H5Screate_scalar ELSE H5Screate_simple(ds.shape)
      sel_ok   == H5Sselect_ok(ds.shape, sl)
      file_sp  == IF sel_ok THEN H5Sselect_hyperslab(space0, sl) ELSE space0
      mem      == make_mem_dspace(v)
  IN  IF ~hdf5_type_equal(v.ty, ds_info.ty) THEN [ok |-> FALSE, g |-> g]
      ELSE IF ~sel_ok THEN [ok |-> FALSE, g |-> g]
      ELSE IF ~mem.ok THEN [ok |-> FALSE, g |-> g]
      ELSE IF H5Sget_simple_extent_npoints(file_sp) > 0
      THEN IF H5D_transfer_ok(mem.space, file_sp)
           THEN [ok |-> TRUE,
                 g |-> [g EXCEPT !.children =
                          Put(g.children, c_str(name),
                              [ds EXCEPT !.data = H5Dwrite(ds.data, file_sp, v.buf, mem.space)])]]
           ELSE [ok |-> FALSE, g |-> g]
      ELSE [ok |-> TRUE, g |-> g]

\* A slip of write_slice: nothing is transferred.
write_slice_nothing(g, name, v, sl) == [ok |-> ~slab_empty(sl) => has_dataset(g, name), g |-> g]

write_slice(g, name, v, sl) == write_slice_sized(g, name, v, sl, slab_size(sl))

(***************************************************************************)
(* group.cpp: creating and opening subgroups, listing the children.        *)
(***************************************************************************)
\* group::create_group(key, delete_if_exists = true): the group after the
\* call, whether the call returned normally, and whether the group returned
\* is the group itself (empty key)
create_group(g, key) ==
  IF key = <<>> THEN [ok |-> TRUE, g |-> g, self |-> TRUE]
  ELSE LET ul == unlink(g, key)
       IN  IF ~ul.ok \/ ~H5create_ok(ul.g, c_str(key)) THEN [ok |-> FALSE, g |-> ul.g, self |-> FALSE]
           ELSE [ok |-> TRUE, self |-> FALSE,
                 g |-> [ul.g EXCEPT !.children = Put(ul.g.children, c_str(key), NewGroup)]]

\* the group a handle returned by create_group or open_group refers to
SubGroup(g, key) == IF key = <<>> THEN g ELSE g.children[c_str(key)]

\* the group g after the group the handle refers to has become gr
WithSubGroup(g, key, gr) ==
  IF key = <<>> THEN gr ELSE [g EXCEPT !.children = Put(g.children, c_str(key), gr)]

\* group::open_group(key) returns normally
open_group_ok(g, key) == key = <<>> \/ has_subgroup(g, key)

\* group::open_dataset(key) returns normally
open_dataset_ok(g, key) == has_dataset(g, key)

\* std::string::operator< (lexicographic on the character codes)
RECURSIVE LexLess(_, _)
LexLess(a, b) ==
  IF a = <<>> THEN b # <<>>
  ELSE IF b = <<>> THEN FALSE
  ELSE IF Head(a) # Head(b) THEN Head(a) < Head(b)
  ELSE LexLess(Tail(a), Tail(b))

\* the strings of the set S in increasing order
RECURSIVE SortedStrings(_)
SortedStrings(S) ==
  IF S = {} THEN <<>>
  ELSE LET m == CHOOSE x \in S : \A y \in S \ {x} : LexLess(x, y)
       IN  <<m>> \o SortedStrings(S \ {m})

\* group::get_all_subgroup_dataset_names(): H5Literate by increasing name
get_all_subgroup_dataset_names(g) == SortedStrings(DOMAIN g.children)

\* group::get_all_dataset_names()
get_all_dataset_names(g) ==
  SortedStrings({ n \in DOMAIN g.children : g.children[n].kind = "dataset" })

\* group::get_all_subgroup_names()
get_all_subgroup_names(g) ==
  SortedStrings({ n \in DOMAIN g.children : g.children[n].kind = "group" })

\* h5_write_attribute(obj, name, std::string s): H5Acreate2 fails if the
\* attribute exists
h5_write_attribute(obj, name, str) ==
  IF ~H5Acreate2_ok(obj, c_str(name))
  THEN [ok |-> FALSE, g |-> obj]
  ELSE [ok |-> TRUE, g |-> [obj EXCEPT !.attrs = Put(obj.attrs, c_str(name), StringAttr(str))]]

\* h5_read_attribute(obj, name, std::string& s): "" if the attribute is
\* absent; an attribute of rank != 0 throws, and one that holds no string
\* fails H5_ASSERT (or has its bytes taken for characters)
h5_read_attribute(obj, name) ==
  IF H5LTfind_attribute(obj, c_str(name)) = 0 THEN [ok |-> TRUE, val |-> <<>>]
  ELSE LET attr == obj.attrs[c_str(name)]
       IN  IF attr.shape # <<>> \/ H5Tget_class(attr.ty) # "STRING"
           THEN [ok |-> FALSE, val |-> <<>>]
           ELSE [ok |-> TRUE, val |-> c_str(attr.data[1])]

\* array_interface::write_attribute(obj, name, v): the attribute gets the
\* dataspace make_mem_dspace(v) returns, and H5Awrite fills it from v.start
write_attribute(obj, name, v) ==
  LET mem    == make_mem_dspace(v)
      extent == mem.space.extent
  IN  IF H5LTfind_attribute(obj, c_str(name)) # 0 THEN [ok |-> FALSE, g |-> obj]
      ELSE IF ~mem.ok THEN [ok |-> FALSE, g |-> obj]
      ELSE IF ~H5Acreate2_ok(obj, c_str(name)) THEN [ok |-> FALSE, g |-> obj]
      ELSE [ok |-> TRUE,
            g |-> [obj EXCEPT !.attrs =
                     Put(obj.attrs, c_str(name),
                         [ty |-> v.ty, shape |-> extent,
                          data |-> [i \in 1..Product(extent) |-> v.buf[i]]])]]

\* array_interface::read_attribute(obj, name, v): whether the call returned
\* normally, and the buffer of v after the call
read_attribute(obj, name, v) ==
  IF c_str(name) \notin DOMAIN obj.attrs THEN [ok |-> FALSE, buf |-> v.buf]
  ELSE LET attr == obj.attrs[c_str(name)]
       IN  IF Len(attr.shape) # 0 THEN [ok |-> FALSE, buf |-> v.buf]
           ELSE IF attr.ty # v.ty THEN [ok |-> FALSE, buf |-> v.buf]
           ELSE [ok |-> TRUE, buf |-> SetAt(v.buf, 1, attr.data[1])]

\* h5_write_attribute(obj, name, char_buf const &): an attribute of
\* fixed-sized strings
h5_write_attribute_char_buf(obj, name, cb) ==
  LET sz    == cb.lengths[Len(cb.lengths)]
      shape == SubSeq(cb.lengths, 1, Len(cb.lengths) - 1)
  IN  IF ~H5Acreate2_ok(obj, c_str(name)) THEN [ok |-> FALSE, g |-> obj]
      ELSE [ok |-> TRUE,
            g |-> [obj EXCEPT !.attrs =
                     Put(obj.attrs, c_str(name),
                         [ty |-> [cls |-> "STRING", size |-> sz], shape |-> shape,
                          data |-> [i \in 1..Product(shape) |->
                                      SubSeq(cb.buffer, (i - 1) * sz + 1, i * sz)]])]]

(***************************************************************************)
(* C++ types and values of the codecs.  A type is a record with its kind k *)
(* and its parameters (of, ts, key, val, n).  The values are:              *)
(*   int, long, double        an integer                                   *)
(*   complex                  <<re, im>>                                   *)
(*   string                   the sequence of its character codes          *)
(*   vector, array            the sequence of the elements                 *)
(*   optional                 <<>> (disengaged) or <<v>> (engaged)         *)
(*   pair, tuple              the sequence of the members                  *)
(*   map                      a function from the keys to the values       *)
(*   variant                  <<index of the alternative, v>>              *)
(***************************************************************************)
t_int     == [k |-> "int"]
t_long    == [k |-> "long"]
t_double  == [k |-> "double"]
t_complex == [k |-> "complex"]
t_string  == [k |-> "string"]
t_vector(T)      == [k |-> "vector", of |-> T]
t_array(T, N)    == [k |-> "array", of |-> T, n |-> N]
t_optional(T)    == [k |-> "optional", of |-> T]
t_pair(T1, T2)   == [k |-> "pair", ts |-> <<T1, T2>>]
t_tuple(Ts)      == [k |-> "tuple", ts |-> Ts]
t_map(Tk, Tv)    == [k |-> "map", key |-> Tk, val |-> Tv]
t_variant(Ts)    == [k |-> "variant", ts |-> Ts]
\* h5::char_buf: [buffer |-> the characters, lengths |-> the numbers of strings
\* in each dimension followed by the length of a string + 1]
t_char_buf       == [k |-> "char_buf"]
\* h5::dcplx_t {double r; double i;}: <<r, i>>
t_dcplx          == [k |-> "dcplx"]

\* std::is_arithmetic_v<T>
is_arithmetic(T) == T.k \in {"int", "long", "double"}

\* is_complex_v<T>
is_complex(T) == T.k = "complex"

\* hdf5_type<T>()
hdf5_type(T) ==
  CASE T.k = "int"     -> H5T_NATIVE_INT
    [] T.k = "long"    -> H5T_NATIVE_LONG
    [] T.k = "double"  -> H5T_NATIVE_DOUBLE
    [] T.k = "complex" -> H5T_NATIVE_DOUBLE
    [] T.k = "string"  -> str_dt
    [] T.k = "dcplx"   -> cplx_cmpd_dt
    [] OTHER           -> NoType

\* T{}: the value-initialised object of type T
RECURSIVE Default(_)
Default(T) ==
  CASE is_arithmetic(T)   -> 0
    [] T.k = "complex"    -> <<0, 0>>
    [] T.k = "dcplx"      -> <<0, 0>>
    [] T.k = "string"     -> <<>>
    [] T.k = "vector"     -> <<>>
    [] T.k = "array"      -> [i \in 1..T.n |-> Default(T.of)]
    [] T.k = "optional"   -> <<>>
    [] T.k \in {"pair", "tuple"} -> [i \in 1..Len(T.ts) |-> Default(T.ts[i])]
    [] T.k = "map"        -> <<>>
    [] T.k = "variant"    -> <<1, Default(T.ts[1])>>
    [] T.k = "char_buf"   -> [buffer |-> <<>>, lengths |-> <<>>]

\* get_hdf5_format<T>(): the Format tag of a type
get_hdf5_format(T) ==
  CASE T.k = "vector"             -> s_List
    [] T.k = "map"                -> s_Dict
    [] T.k \in {"pair", "tuple"}  -> s_PythonTupleWrap

\* the memory of a scalar or of a vector / array of scalars, as the element
\* transfer sees it: a complex number is two consecutive doubles
ScalarBuf(T, x) == IF is_complex(T) THEN x ELSE <<x>>

VectorBuf(T, v) == IF is_complex(T) THEN Flatten(v) ELSE v

\* A slip of array_view_from_scalar: the complex flag is not passed on.
array_view_from_scalar_real(T, x) == array_view(hdf5_type(T), ScalarBuf(T, x), 0, FALSE)

\* array_view_from_scalar
array_view_from_scalar(T, x) == array_view(hdf5_type(T), ScalarBuf(T, x), 0, is_complex(T))

\* h5_write_attribute(obj, name, T const &x) for arithmetic and complex T
h5_write_attribute_scalar(obj, name, T, x) ==
  write_attribute(obj, name, array_view_from_scalar(T, x))

\* h5_read_attribute(obj, name, T &x) for arithmetic and complex T: whether
\* the call returned normally, and x after it
h5_read_attribute_scalar(obj, name, T, prior) ==
  LET r == read_attribute(obj, name, array_view_from_scalar(T, prior))
  IN  [ok |-> r.ok, val |-> IF is_complex(T) THEN r.buf ELSE r.buf[1]]

\* array_view_from_vector / the view built in h5_write of std::array
array_view_from_vector(T, v) ==
  LET av == array_view(hdf5_type(T), VectorBuf(T, v), 1, is_complex(T))
  IN  [av EXCEPT !.slab.count = SetAt(av.slab.count, 1, Len(v)),
                 !.parent_shape = SetAt(av.parent_shape, 1, Len(v))]

\* std::map iterates by increasing key
KeyLess(Tk, a, b) == IF Tk.k = "string" THEN LexLess(a, b) ELSE a < b

RECURSIVE SortedKeys(_, _)
SortedKeys(Tk, S) ==
  IF S = {} THEN <<>>
  ELSE LET m == CHOOSE x \in S : \A y \in S \ {x} : KeyLess(Tk, x, y)
       IN  <<m>> \o SortedKeys(Tk, S \ {m})

(***************************************************************************)
(* h5_write(group g, std::string name, T x) for the types above: the group *)
(* after the call, and whether the call returned normally.                 *)
(***************************************************************************)
\* group::create_dataset(key, ty, sp) followed by H5Dwrite of one element
create_scalar_dataset(g, key, ty, elem) ==
  LET ul == unlink(g, key)
      ds == [NewDataset(ty, <<>>, <<>>) EXCEPT !.data = <<elem>>]
  IN  IF ~ul.ok \/ ~H5create_ok(ul.g, c_str(key)) THEN [ok |-> FALSE, g |-> ul.g]
      ELSE [ok |-> TRUE, g |-> [ul.g EXCEPT !.children = Put(ul.g.children, c_str(key), ds)]]

\* h5_write(group, name, std::string const &)
h5_write_string(g, name, str) == create_scalar_dataset(g, name, str_dt, c_str(str))

\* str_dtype(size): a fixed-sized string datatype
str_dtype(size) == [cls |-> "STRING", size |-> size]

Max(a, b) == IF a >= b THEN a ELSE b

\* the size s of to_char_buf: the length of the longest string + 1
RECURSIVE MaxStringSize(_, _)
MaxStringSize(v, sz) ==
  IF v = <<>> THEN sz ELSE MaxStringSize(Tail(v), Max(sz, Len(Head(v)) + 1))

\* strcpy(&buf[i * s], x.c_str()) into a zeroed slot of s characters
PadTo(str, sz) == [j \in 1..sz |-> IF j <= Len(c_str(str)) THEN c_str(str)[j] ELSE 0]

\* to_char_buf(std::vector<std::string> const &)
to_char_buf(v) ==
  LET sz == MaxStringSize(v, 1)
  IN  [buffer  |-> IF v = <<>> THEN <<0>> ELSE Flatten([i \in 1..Len(v) |-> PadTo(v[i], sz)]),
       lengths |-> <<Len(v), sz>>]

\* x.erase(std::remove(begin(x), end(x), '\0'), end(x))
remove_nul(str) == SelectSeq(str, LAMBDA c : c # 0)

\* from_char_buf(char_buf const &, std::vector<std::string> &)
from_char_buf(cb) ==
  [i \in 1..cb.lengths[1] |->
     remove_nul(SubSeq(cb.buffer, (i - 1) * cb.lengths[2] + 1, i * cb.lengths[2]))]

\* the sizes s and lv of to_char_buf for a vector of vectors: the length of
\* the longest string + 1 and the length of the longest vector
RECURSIVE MaxStringSize2(_, _)
MaxStringSize2(vv, sz) ==
  IF vv = <<>> THEN sz ELSE MaxStringSize2(Tail(vv), MaxStringSize(Head(vv), sz))

RECURSIVE MaxVectorSize(_, _)
MaxVectorSize(vv, lv) ==
  IF vv = <<>> THEN lv ELSE MaxVectorSize(Tail(vv), Max(lv, Len(Head(vv))))

\* A slip of to_char_buf: the slots that hold no string are left out.
to_char_buf_2_ragged(vv) ==
  LET sz == MaxStringSize2(vv, 1)
      lv == MaxVectorSize(vv, 0)
      rows == [i \in 1..Len(vv) |-> Flatten([j \in 1..Len(vv[i]) |-> PadTo(vv[i][j], sz)])]
  IN  [buffer  |-> IF Flatten(rows) = <<>> THEN <<0>> ELSE Flatten(rows),
       lengths |-> <<Len(vv), lv, sz>>]

\* to_char_buf(std::vector<std::vector<std::string>> const &)
to_char_buf_2(vv) ==
  LET sz == MaxStringSize2(vv, 1)
      lv == MaxVectorSize(vv, 0)
      rows == [i \in 1..Len(vv) |->
                 Flatten([j \in 1..lv |-> IF j <= Len(vv[i]) THEN PadTo(vv[i][j], sz)
                                          ELSE Rep(sz, 0)])]
  IN  [buffer  |-> IF Len(vv) * lv * sz = 0 THEN <<0>> ELSE Flatten(rows),
       lengths |-> <<Len(vv), lv, sz>>]

\* from_char_buf(char_buf const &, std::vector<std::vector<std::string>> &)
from_char_buf_2(cb) ==
  [i \in 1..cb.lengths[1] |->
     [j \in 1..cb.lengths[2] |->
        remove_nul(SubSeq(cb.buffer, ((i - 1) * cb.lengths[2] + j - 1) * cb.lengths[3] + 1,
                          ((i - 1) * cb.lengths[2] + j) * cb.lengths[3]))]]

\* h5_write(group, name, char_buf const &): a dataset of fixed-sized strings
h5_write_char_buf(g, name, cb) ==
  LET ul    == unlink(g, name)
      sz    == cb.lengths[Len(cb.lengths)]
      shape == SubSeq(cb.lengths, 1, Len(cb.lengths) - 1)
      ds    == [NewDataset(str_dtype(sz), shape, <<>>) EXCEPT
                  !.data = [i \in 1..Product(shape) |->
                              SubSeq(cb.buffer, (i - 1) * sz + 1, i * sz)]]
  IN  IF ~ul.ok \/ ~H5create_ok(ul.g, c_str(name)) THEN [ok |-> FALSE, g |-> ul.g]
      ELSE [ok |-> TRUE, g |-> [ul.g EXCEPT !.children = Put(ul.g.children, c_str(name), ds)]]

\* write_hdf5_format(gr, x)
write_hdf5_format(gr, T) == h5_write_attribute(gr, s_Format, get_hdf5_format(T))

RECURSIVE h5_write(_, _, _, _)
RECURSIVE WriteMembers(_, _, _, _)
RECURSIVE WriteEntries(_, _, _, _, _)

\* h5_write(gr, std::to_string(i), x[i]) for the members i .. of x, of the
\* types ts, in increasing order, up to the first call that throws
WriteMembers(gr, ts, xs, i) ==
  IF i > Len(xs) THEN [ok |-> TRUE, g |-> gr]
  ELSE LET r == h5_write(gr, to_string(i - 1), ts[i], xs[i])
       IN  IF ~r.ok THEN r ELSE WriteMembers(r.g, ts, xs, i + 1)

\* h5_write(element_gr, "key", key); h5_write(element_gr, "val", val)
WriteKeyVal(element_gr, T, key, val) ==
  LET rk == h5_write(element_gr, s_key, T.key, key)
  IN  IF ~rk.ok THEN rk ELSE h5_write(rk.g, s_val, T.val, val)

\* the group gr whose subgroup idx is the group of the result w
InSubGroup(gr, idx, w) == [ok |-> w.ok, g |-> WithSubGroup(gr, idx, w.g)]

\* element_gr = gr.create_group(std::to_string(idx)) and the two writes
WriteElement(gr, idx, T, key, val) ==
  LET cg == create_group(gr, idx)
  IN  IF ~cg.ok THEN [ok |-> FALSE, g |-> cg.g]
      ELSE InSubGroup(cg.g, idx, WriteKeyVal(SubGroup(cg.g, idx), T, key, val))

\* the loop of h5_write for std::map over the keys keys[i ..] of m
WriteEntries(gr, T, m, keys, i) ==
  IF i > Len(keys) THEN [ok |-> TRUE, g |-> gr]
  ELSE LET key == keys[i]
           r   == IF T.key.k = "string"
                  THEN h5_write(gr, key, T.val, m[key])
                  ELSE WriteElement(gr, to_string(i - 1), T, key, m[key])
       IN  IF ~r.ok THEN r ELSE WriteEntries(r.g, T, m, keys, i + 1)

\* create_group(name), write_hdf5_format and the writes of the children
WriteGroup(g, name, T, x) ==
  LET cg == create_group(g, name)
      fm == write_hdf5_format(SubGroup(cg.g, name), T)
      r  == CASE T.k = "vector" -> WriteMembers(fm.g, Rep(Len(x), T.of), x, 1)
              [] T.k = "map"    -> WriteEntries(fm.g, T, x, SortedKeys(T.key, DOMAIN x), 1)
              [] OTHER          -> WriteMembers(fm.g, T.ts, x, 1)
  IN  IF ~cg.ok THEN [ok |-> FALSE, g |-> cg.g]
      ELSE IF ~fm.ok THEN [ok |-> FALSE, g |-> WithSubGroup(cg.g, name, fm.g)]
      ELSE [ok |-> r.ok, g |-> WithSubGroup(cg.g, name, r.g)]

h5_write(g, name, T, x) ==
  CASE is_arithmetic(T) \/ is_complex(T) \/ T.k = "dcplx" ->
         write(g, name, array_view_from_scalar(T, x), FALSE)
    [] T.k = "string" ->
         h5_write_string(g, name, x)
    [] T.k \in {"vector", "array"} /\ (is_arithmetic(T.of) \/ is_complex(T.of)) ->
         write(g, name, array_view_from_vector(T.of, x), TRUE)
    [] T.k = "vector" /\ T.of.k = "string" ->
         h5_write_char_buf(g, name, to_char_buf(x))
    [] T.k = "vector" /\ ~(is_arithmetic(T.of) \/ is_complex(T.of)) /\ T.of.k # "string" ->
         WriteGroup(g, name, T, x)
    [] T.k = "char_buf" ->
         h5_write_char_buf(g, name, x)
    [] T.k \in {"pair", "tuple", "map"} ->
         WriteGroup(g, name, T, x)
    [] T.k = "optional" ->
         IF x # <<>> THEN h5_write(g, name, T.of, x[1]) ELSE [ok |-> TRUE, g |-> g]
    [] T.k = "variant" ->
         h5_write(g, name, T.ts[x[1]], x[2])

(***************************************************************************)
(* h5_read(group g, std::string name, T & x): whether the call returned    *)
(* normally, and the value of x after it (prior is its value before).      *)
(***************************************************************************)
\* h5_read(group, name, std::string &): a dataset that does not hold a string
\* fails H5_ASSERT (or has its bytes taken for characters); neither is a
\* normal return with the string stored
h5_read_string(g, name) ==
  IF ~open_dataset_ok(g, name) THEN [ok |-> FALSE, val |-> <<>>]
  ELSE LET ds == g.children[c_str(name)]
       IN  IF ds.shape # <<>> THEN [ok |-> FALSE, val |-> <<>>]
           ELSE IF H5Tget_class(ds.ty) # "STRING" THEN [ok |-> FALSE, val |-> <<>>]
           ELSE [ok |-> TRUE, val |-> c_str(ds.data[1])]

\* h5_read(group, name, char_buf &)
h5_read_char_buf(g, name, prior) ==
  IF ~open_dataset_ok(g, name) THEN [ok |-> FALSE, val |-> prior]
  ELSE LET ds == g.children[c_str(name)]
       IN  IF H5Tget_class(ds.ty) # "STRING" \/ ds.ty.size < 0 THEN [ok |-> FALSE, val |-> prior]
           ELSE [ok |-> TRUE,
                 val |-> [buffer  |-> IF ds.data = <<>> THEN <<0>> ELSE Flatten(ds.data),
                          lengths |-> ds.shape \o <<ds.ty.size>>]]

\* h5_read_attribute(obj, name, char_buf &)
h5_read_attribute_char_buf(obj, name, prior) ==
  IF c_str(name) \notin DOMAIN obj.attrs THEN [ok |-> FALSE, val |-> prior]
  ELSE LET attr == obj.attrs[c_str(name)]
       IN  IF H5Tget_class(attr.ty) # "STRING" THEN [ok |-> FALSE, val |-> prior]
           ELSE [ok |-> TRUE,
                 val |-> [buffer  |-> IF attr.data = <<>> THEN <<0>> ELSE Flatten(attr.data),
                          lengths |-> attr.shape \o <<attr.ty.size>>]]

\* the elements of a buffer read as a vector of T
FromVectorBuf(T, buf) ==
  IF is_complex(T) THEN [i \in 1..(Len(buf) \div 2) |-> <<buf[2 * i - 1], buf[2 * i]>>] ELSE buf

\* the scalar of type T that the view of the result r of read refers to
ScalarOfView(T, r) == [ok |-> r.ok, val |-> IF is_complex(T) THEN r.buf ELSE r.buf[1]]

\* h5_read of an arithmetic or complex scalar that is not stored the old way
h5_read_scalar(g, name, T, prior) ==
  IF ~open_dataset_ok(g, name) THEN [ok |-> FALSE, val |-> prior]
  ELSE ScalarOfView(T, read(g, name, array_view_from_scalar(T, prior), EmptySlab))

\* A slip of the vector read: the destination is not resized to the stored length.
h5_read_vector_dataset_no_resize(g, name, T, prior) ==
  LET r == read(g, name, array_view_from_vector(T.of, prior), EmptySlab)
  IN  [ok |-> r.ok, val |-> FromVectorBuf(T.of, r.buf)]

\* h5_read of a std::vector of arithmetic or complex elements from a dataset
h5_read_vector_dataset(g, name, T, prior) ==
  IF ~open_dataset_ok(g, name) THEN [ok |-> FALSE, val |-> prior]
  ELSE LET lt == get_dataset_info(g.children[c_str(name)])
           n  == lt.lengths[1]
           v  == [i \in 1..n |-> IF i <= Len(prior) THEN prior[i] ELSE Default(T.of)]
           r  == read(g, name, array_view_from_vector(T.of, v), EmptySlab)
       IN  IF Len(lt.lengths) # 1 + (IF is_complex(T.of) THEN 1 ELSE 0)
           THEN [ok |-> FALSE, val |-> prior]
           ELSE [ok |-> r.ok, val |-> FromVectorBuf(T.of, r.buf)]

\* h5_read of a std::array of arithmetic or complex elements: H5_EXPECTS on
\* the rank and the length, then array_interface::read
h5_read_array_dataset(g, name, T, prior) ==
  IF ~open_dataset_ok(g, name) THEN [ok |-> FALSE, val |-> prior]
  ELSE LET ds_info == get_dataset_info(g.children[c_str(name)])
           r       == read(g, name, array_view_from_vector(T.of, prior), EmptySlab)
       IN  IF Len(ds_info.lengths) # 1 + (IF ds_info.has_complex_attribute THEN 1 ELSE 0)
           THEN [ok |-> FALSE, val |-> prior]
           ELSE IF T.n # ds_info.lengths[1] THEN [ok |-> FALSE, val |-> prior]
           ELSE IF is_complex(T.of) /\ ~ds_info.has_complex_attribute
           THEN LET rd == read(g, name, array_view_from_vector(t_double, Rep(T.n, 0)), EmptySlab)
                IN  [ok |-> rd.ok, val |-> IF rd.ok THEN [i \in 1..T.n |-> <<rd.buf[i], 0>>] ELSE prior]
           ELSE [ok |-> r.ok, val |-> FromVectorBuf(T.of, r.buf)]

\* x = std::complex<double>{r, i} for the doubles read from "r" and "i"
ComplexOfParts(r, i, prior) ==
  IF r.ok /\ i.ok THEN [ok |-> TRUE, val |-> <<r.val, i.val>>]
  ELSE [ok |-> FALSE, val |-> prior]

RECURSIVE h5_read(_, _, _, _)
RECURSIVE ReadMembers(_, _, _, _)
RECURSIVE ReadEntries(_, _, _, _, _)
RECURSIVE h5_read_variant_helper(_, _, _, _, _)

\* h5_read(gr, std::to_string(i), x[i]) for the members i .. of xs, of the
\* types ts, in increasing order, up to the first call that throws
ReadMembers(gr, ts, xs, i) ==
  IF i > Len(xs) THEN [ok |-> TRUE, val |-> xs]
  ELSE LET r == h5_read(gr, to_string(i - 1), ts[i], xs[i])
       IN  IF ~r.ok THEN [ok |-> FALSE, val |-> SetAt(xs, i, r.val)]
           ELSE ReadMembers(gr, ts, SetAt(xs, i, r.val), i + 1)

\* A slip of the map read: the destination keeps its entries.
clear_nothing(m) == m

\* m.clear()
clear(m) == <<>>

\* m.emplace(key, val): an entry with the key already present is kept
emplace(m, key, val) == IF key \in DOMAIN m THEN m ELSE Put(m, key, val)

\* the loop of h5_read for std::map over the children names[i ..] of gr
ReadEntries(gr, T, m, names, i) ==
  IF i > Len(names) THEN [ok |-> TRUE, val |-> m]
  ELSE LET x == names[i]
       IN  IF T.key.k = "string"
           THEN LET r == h5_read(gr, x, T.val, Default(T.val))
                IN  IF ~r.ok THEN [ok |-> FALSE, val |-> m]
                    ELSE ReadEntries(gr, T, emplace(m, x, r.val), names, i + 1)
           ELSE IF ~open_group_ok(gr, x) THEN [ok |-> FALSE, val |-> m]
           ELSE LET element_gr == SubGroup(gr, x)
                    rk == h5_read(element_gr, s_key, T.key, Default(T.key))
                    rv == h5_read(element_gr, s_val, T.val, Default(T.val))
                IN  IF ~rk.ok \/ ~rv.ok THEN [ok |-> FALSE, val |-> m]
                    ELSE ReadEntries(gr, T, emplace(m, rk.val, rv.val), names, i + 1)

\* h5_read_variant_helper<VT, U, Ts...>: the first alternative, from the i-th
\* on, whose HDF5 datatype equals the datatype dt of the dataset
h5_read_variant_helper(T, i, dt, g, name) ==
  IF hdf5_type_equal(hdf5_type(T.ts[i]), dt)
  THEN LET r == h5_read(g, name, T.ts[i], Default(T.ts[i]))
       IN  [ok |-> r.ok, idx |-> i, val |-> r.val]
  ELSE IF i < Len(T.ts) THEN h5_read_variant_helper(T, i + 1, dt, g, name)
  ELSE [ok |-> FALSE, idx |-> 0, val |-> 0]

h5_read(g, name, T, prior) ==
  CASE is_arithmetic(T) \/ T.k = "dcplx" ->
         h5_read_scalar(g, name, T, prior)
    [] is_complex(T) ->
         IF has_subgroup(g, name)
         THEN ComplexOfParts(h5_read_scalar(SubGroup(g, name), <<114>>, t_double, 0),
                             h5_read_scalar(SubGroup(g, name), <<105>>, t_double, 0), prior)
         ELSE IF open_dataset_ok(g, name)
                 /\ hdf5_type_equal(get_dataset_info(g.children[c_str(name)]).ty,
                                    hdf5_type(t_dcplx))
         THEN h5_read_scalar(g, name, t_dcplx, prior)
         ELSE h5_read_scalar(g, name, T, prior)
    [] T.k = "string" ->
         h5_read_string(g, name)
    [] T.k = "char_buf" ->
         h5_read_char_buf(g, name, prior)
    [] T.k = "vector" ->
         IF ~has_key(g, name) THEN [ok |-> FALSE, val |-> prior]
         ELSE IF has_subgroup(g, name)
         THEN LET g2 == SubGroup(g, name)
                  n  == Len(get_all_dataset_names(g2)) + Len(get_all_subgroup_names(g2))
                  v  == [i \in 1..n |-> IF i <= Len(prior) THEN prior[i] ELSE Default(T.of)]
              IN  ReadMembers(g2, Rep(n, T.of), v, 1)
         ELSE IF is_arithmetic(T.of) \/ is_complex(T.of)
         THEN h5_read_vector_dataset(g, name, T, prior)
         ELSE IF T.of.k = "string"
         THEN LET cb == h5_read_char_buf(g, name, Default(t_char_buf))
              IN  IF ~cb.ok \/ Len(cb.val.lengths) # 2 THEN [ok |-> FALSE, val |-> prior]
                  ELSE [ok |-> TRUE, val |-> from_char_buf(cb.val)]
         ELSE [ok |-> FALSE, val |-> prior]
    [] T.k = "array" ->
         h5_read_array_dataset(g, name, T, prior)
    [] T.k = "optional" ->
         IF has_key(g, name)
         THEN LET r == h5_read(g, name, T.of, Default(T.of))
              IN  IF r.ok THEN [ok |-> TRUE, val |-> <<r.val>>] ELSE [ok |-> FALSE, val |-> <<>>]
         ELSE [ok |-> TRUE, val |-> <<>>]
    [] T.k \in {"pair", "tuple"} ->
         IF ~open_group_ok(g, name) THEN [ok |-> FALSE, val |-> prior]
         ELSE LET gr == SubGroup(g, name)
              IN  IF Len(get_all_subgroup_dataset_names(gr)) # Len(T.ts)
                  THEN [ok |-> FALSE, val |-> prior]
                  ELSE ReadMembers(gr, T.ts, prior, 1)
    [] T.k = "map" ->
         IF ~open_group_ok(g, name) THEN [ok |-> FALSE, val |-> prior]
         ELSE LET gr == SubGroup(g, name)
              IN  ReadEntries(gr, T, clear(prior), get_all_subgroup_dataset_names(gr), 1)
    [] T.k = "variant" ->
         IF ~open_dataset_ok(g, name) THEN [ok |-> FALSE, val |-> prior]
         ELSE LET r == h5_read_variant_helper(T, 1, g.children[c_str(name)].ty, g, name)
              IN  IF r.ok THEN [ok |-> TRUE, val |-> <<r.idx, r.val>>]
                  ELSE [ok |-> FALSE, val |-> prior]

(***************************************************************************)
(* The calls of check_strides in the tests: <<np_strides, view_shape>>.    *)
(***************************************************************************)
TestedPairs ==
  { << <<1>>, <<10>> >>, << <<1>>, <<5>> >>, << <<2>>, <<5>> >>,
    << <<3>>, <<4>> >>, << <<7>>, <<2>> >>,
    << <<10, 1>>, <<10, 10>> >>, << <<10, 1>>, <<5, 5>> >>,
    << <<20, 2>>, <<5, 5>> >>, << <<30, 1>>, <<4, 4>> >>,
    << <<100, 10, 1>>, <<10, 10, 10>> >>, << <<100, 10, 1>>, <<2, 3, 4>> >>,
    << <<200, 20, 2>>, <<5, 5, 5>> >> }

StrideInputs ==
  TestedPairs \cup
  UNION { SeqsOfLen(0..MaxStride, r) \X SeqsOfLen(0..MaxExtent, r) : r \in 0..MaxRank }

NoResult == [parent_shape |-> <<>>, h5_strides |-> <<>>, exact |-> TRUE, fault |-> FALSE]

\* the stride reconciliation is not part of the run
StridesIdle ==
  /\ spc = "idle"
  /\ np_strides = <<>>
  /\ view_shape = <<>>
  /\ strides_out = NoResult

\* the array interface scenario is not part of the run
IoIdle ==
  /\ io_done = {}
  /\ io_ok = TRUE
  /\ file = NewGroup
  /\ data = <<>>
  /\ view_2 = array_view(H5T_NATIVE_INT, <<>>, 0, FALSE)
  /\ data_in_2 = <<>>
  /\ data_in_3 = <<>>

\* the codec scenario is not part of the run
CodecIdle ==
  /\ cpc = "idle"
  /\ root = NewGroup
  /\ ckey = <<>>
  /\ first = <<>>
  /\ second = <<t_int, 0>>
  /\ dest = 0
  /\ dest_0 = 0
  /\ w_ok = TRUE
  /\ r_ok = TRUE

OpIdle ==
  /\ op_pc = "idle"
  /\ op_g = <<>>
  /\ op_g_0 = <<>>
  /\ op_in = <<>>
  /\ op_out = <<>>

SerialIdle ==
  /\ ser_pc = "idle"
  /\ ser_x = <<>>
  /\ ser_mem = <<>>
  /\ ser_buf = <<>>
  /\ ser_out = <<>>
  /\ ser_ref = <<>>

StridesInit ==
  /\ OpIdle
  /\ SerialIdle
  /\ spc = "call"
  /\ \E p \in StrideInputs : np_strides = p[1] /\ view_shape = p[2]
  /\ strides_out = NoResult
  /\ IoIdle
  /\ CodecIdle

CallReconcile ==
  /\ spc = "call"
  /\ strides_out' = get_parent_shape_and_h5_strides(np_strides, Len(view_shape), Product(view_shape))
  /\ spc' = "done"
  /\ UNCHANGED <<np_strides, view_shape>>
  /\ UNCHANGED ioVars
  /\ UNCHANGED codecVars
  /\ UNCHANGED serialVars
  /\ UNCHANGED opVars

StridesNext == CallReconcile

SpecStrides == StridesInit /\ [][StridesNext]_vars

(***************************************************************************)
(* The scenario of TEST(H5, ArrayInterface1DArray) and                     *)
(* TEST(H5, ArrayInterface3DArray): data holds 0, 1, 2, ... and is written *)
(* in full as "view_1"; the view view_2 of data selecting a hyperslab S is *)
(* written as "view_2"; "view_2" is read in full into data_in_2, and       *)
(* "view_1" is read through S into data_in_3.                              *)
(***************************************************************************)
IoShapes ==
  { sh \in UNION { SeqsOfLen(1..MaxDim, r) : r \in 1..MaxIoRank } : Product(sh) <= MaxPoints }

\* <<offset, stride, count, block>> of a selection inside one dimension of extent e
DimSlabs(e) ==
  { q \in (0..(e - 1)) \X (1..e) \X (0..e) \X (1..e) :
      /\ (q[3] > 1 => q[2] >= q[4])
      /\ (q[3] > 0 => q[1] + (q[3] - 1) * q[2] + q[4] <= e) }

\* one <<offset, stride, count, block>> per dimension of the shape sh
RECURSIVE DimSlabSeqs(_)
DimSlabSeqs(sh) ==
  IF sh = <<>> THEN { <<>> }
  ELSE { <<q>> \o r : q \in DimSlabs(Head(sh)), r \in DimSlabSeqs(Tail(sh)) }

SlabsInside(sh) ==
  { [offset |-> [d \in 1..Len(sh) |-> f[d][1]],
     stride |-> [d \in 1..Len(sh) |-> f[d][2]],
     count  |-> [d \in 1..Len(sh) |-> f[d][3]],
     block  |-> [d \in 1..Len(sh) |-> f[d][4]]] : f \in DimSlabSeqs(sh) }

\* std::iota(data.begin(), data.end(), 0)
Iota(n) == [i \in 1..n |-> i - 1]

\* a contiguous 1-D view of n elements over the buffer buf
FlatView(ty, buf, n) ==
  [array_view(ty, buf, 1, FALSE) EXCEPT !.slab.count = <<n>>, !.parent_shape = <<n>>]

\* the view of all of buf as an array of shape sh
FullView(ty, buf, sh) ==
  [array_view(ty, buf, Len(sh), FALSE) EXCEPT !.slab.count = sh, !.parent_shape = sh]

IoInit ==
  /\ OpIdle
  /\ SerialIdle
  /\ StridesIdle
  /\ CodecIdle
  /\ io_done = {}
  /\ io_ok = TRUE
  /\ file = NewGroup
  /\ \E sh \in IoShapes : \E sl \in SlabsInside(sh) :
       /\ data = Iota(Product(sh))
       /\ view_2 = [array_view(H5T_NATIVE_INT, data, Len(sh), FALSE)
                      EXCEPT !.slab = sl, !.parent_shape = sh]
  /\ data_in_2 = Rep(slab_size(view_2.slab), 0)
  /\ data_in_3 = Rep(slab_size(view_2.slab), 0)

\* h5::array_interface::write(file, "view_1", view_1, true)
WriteFull ==
  /\ "write_1" \notin io_done
  /\ LET view_1 == FullView(H5T_NATIVE_INT, data, view_2.parent_shape)
         r      == write(file, s_view_1, view_1, TRUE)
     IN  file' = r.g /\ io_ok' = (io_ok /\ r.ok)
  /\ io_done' = io_done \cup {"write_1"}
  /\ UNCHANGED <<data, view_2, data_in_2, data_in_3>>
  /\ UNCHANGED stridesVars
  /\ UNCHANGED codecVars
  /\ UNCHANGED serialVars
  /\ UNCHANGED opVars

\* h5::array_interface::write(file, "view_2", view_2, true)
WriteView ==
  /\ "write_2" \notin io_done
  /\ LET r == write(file, s_view_2, view_2, TRUE)
     IN  file' = r.g /\ io_ok' = (io_ok /\ r.ok)
  /\ io_done' = io_done \cup {"write_2"}
  /\ UNCHANGED <<data, view_2, data_in_2, data_in_3>>
  /\ UNCHANGED stridesVars
  /\ UNCHANGED codecVars
  /\ UNCHANGED serialVars
  /\ UNCHANGED opVars

\* h5::array_interface::read(file, "view_2", view_in_2)
ReadView ==
  /\ "write_2" \in io_done /\ "read_2" \notin io_done
  /\ LET view_in_2 == FlatView(H5T_NATIVE_INT, data_in_2, Len(data_in_2))
         r         == read(file, s_view_2, view_in_2, EmptySlab)
     IN  data_in_2' = r.buf /\ io_ok' = (io_ok /\ r.ok)
  /\ io_done' = io_done \cup {"read_2"}
  /\ UNCHANGED <<file, data, view_2, data_in_3>>
  /\ UNCHANGED stridesVars
  /\ UNCHANGED codecVars
  /\ UNCHANGED serialVars
  /\ UNCHANGED opVars

\* h5::array_interface::read(file, "view_1", view_in_3, view_2.slab)
ReadSlab ==
  /\ "write_1" \in io_done /\ "read_3" \notin io_done
  /\ LET view_in_3 == FlatView(H5T_NATIVE_INT, data_in_3, Len(data_in_3))
         r         == read(file, s_view_1, view_in_3, view_2.slab)
     IN  data_in_3' = r.buf /\ io_ok' = (io_ok /\ r.ok)
  /\ io_done' = io_done \cup {"read_3"}
  /\ UNCHANGED <<file, data, view_2, data_in_2>>
  /\ UNCHANGED stridesVars
  /\ UNCHANGED codecVars
  /\ UNCHANGED serialVars
  /\ UNCHANGED opVars

IoNext == WriteFull \/ WriteView \/ ReadView \/ ReadSlab

SpecIo == IoInit /\ [][IoNext]_vars

(***************************************************************************)
(* The scenario of the codec tests (h5_vector.cpp, h5_optional.cpp, the    *)
(* map, pair, tuple and variant tests): a value is written to a name of a  *)
(* group, possibly after an earlier value was written to the same name,    *)
(* and the name is read back into a variable of the type written last.     *)
(***************************************************************************)
V(T, x) == <<T, x>>

TypeOf(v) == v[1]

ValueOf(v) == v[2]

\* "a", "b", "hi", "k"
s_a == <<97>>
s_b == <<98>>
s_hi == <<104, 105>>
s_k == <<107>>

t_vec_vec_int == t_vector(t_vector(t_int))

\* values of the scalar, string, numeric vector / array and char_buf types
LeafValues ==
  { V(t_int, 3), V(t_int, 18), V(t_double, 2), V(t_complex, <<1, 2>>),
    V(t_string, <<>>), V(t_string, s_hi),
    V(t_vector(t_int), <<>>), V(t_vector(t_int), <<1, 2, 3>>),
    V(t_vector(t_complex), <<>>), V(t_vector(t_complex), << <<1, 2>>, <<3, 4>> >>),
    V(t_vector(t_string), <<>>), V(t_vector(t_string), <<s_hi, <<>>, s_a>>),
    V(t_array(t_int, 2), <<4, 5>>),
    V(t_char_buf, [buffer |-> <<97, 0, 98, 0>>, lengths |-> <<2, 2>>]) }

\* values of the types stored as a subgroup
GroupValues ==
  { V(t_vec_vec_int, <<>>), V(t_vec_vec_int, << <<1>>, <<>>, <<2, 3>> >>),
    V(t_vec_vec_int, [i \in 1..LongLen |-> <<i>>]),
    V(t_vector(t_pair(t_int, t_string)), << <<1, s_a>>, <<2, s_b>> >>),
    V(t_map(t_string, t_int), <<>>),
    V(t_map(t_string, t_int), (s_a :> 1) @@ (s_b :> 2)),
    V(t_map(t_string, t_int), (s_hi :> 5)),
    V(t_map(t_string, t_vec_vec_int), (s_a :> << <<1>> >>) @@ (s_hi :> <<>>)),
    V(t_map(t_int, t_string), <<>>),
    V(t_map(t_int, t_string), (5 :> s_a) @@ (3 :> s_b) @@ (12 :> <<>>)),
    V(t_pair(t_int, t_string), <<1, s_hi>>),
    V(t_pair(t_string, t_vector(t_int)), <<s_a, <<7>> >>),
    V(t_tuple(<<t_int, t_complex, t_vec_vec_int>>), <<4, <<1, 2>>, << <<1>> >> >>),
    V(t_tuple(<<t_string>>), <<s_b>>) }

\* values of std::optional types
OptionalValues ==
  { V(t_optional(t_int), <<>>), V(t_optional(t_int), <<18>>),
    V(t_optional(t_string), <<>>), V(t_optional(t_string), <<s_hi>>),
    V(t_optional(t_vec_vec_int), <<>>), V(t_optional(t_vec_vec_int), << << <<1>> >> >>) }

\* values of containers of optionals
OptionalContainerValues ==
  { V(t_vector(t_optional(t_int)), << <<1>>, <<2>> >>),
    V(t_vector(t_optional(t_int)), << <<1>>, <<>>, <<3>> >>),
    V(t_pair(t_optional(t_int), t_int), << <<1>>, 2>>),
    V(t_pair(t_optional(t_int), t_int), << <<>>, 2>>),
    V(t_tuple(<<t_int, t_optional(t_string), t_int>>), <<1, <<s_a>>, 3>>),
    V(t_tuple(<<t_int, t_optional(t_string), t_int>>), <<1, <<>>, 3>>),
    V(t_map(t_string, t_optional(t_int)), (s_a :> <<1>>) @@ (s_b :> <<2>>)),
    V(t_map(t_string, t_optional(t_int)), (s_a :> <<1>>) @@ (s_b :> <<>>)) }

t_var_int_complex    == t_variant(<<t_int, t_complex>>)
t_var_int_string     == t_variant(<<t_int, t_string>>)
t_var_double_complex == t_variant(<<t_double, t_complex>>)

\* values of std::variant types
VariantValues ==
  { V(t_var_int_complex, <<1, 6>>),
    V(t_var_int_complex, <<2, <<1, 2>>>>),
    V(t_var_int_string, <<1, 6>>),
    V(t_var_int_string, <<2, s_hi>>),
    V(t_var_double_complex, <<1, 2>>),
    V(t_var_double_complex, <<2, <<1, 2>>>>) }

CodecValues ==
  LeafValues \cup GroupValues \cup OptionalValues \cup OptionalContainerValues \cup VariantValues

\* the contents a variable of type T may have before it is read into
Priors(T) == { Default(T) } \cup { ValueOf(v) : v \in { w \in CodecValues : TypeOf(w) = T } }

\* a group holding a dataset "b" that the scenario does not touch
SiblingGroup == h5_write(NewGroup, s_b, t_int, 9).g

CodecInit ==
  /\ OpIdle
  /\ SerialIdle
  /\ StridesIdle
  /\ IoIdle
  /\ root \in {NewGroup, SiblingGroup}
  /\ ckey = s_k
  /\ first \in { <<>> } \cup { <<v>> : v \in CodecValues }
  /\ cpc = IF first = <<>> THEN "write_2" ELSE "write_1"
  /\ second \in CodecValues
  /\ dest \in Priors(TypeOf(second))
  /\ dest_0 = dest
  /\ w_ok = TRUE
  /\ r_ok = TRUE

\* h5_write(g, k, x1)
WriteFirst ==
  /\ cpc = "write_1"
  /\ LET r == h5_write(root, ckey, TypeOf(first[1]), ValueOf(first[1]))
     IN  root' = r.g /\ w_ok' = (w_ok /\ r.ok)
  /\ cpc' = "write_2"
  /\ UNCHANGED <<ckey, first, second, dest, dest_0, r_ok>>
  /\ UNCHANGED stridesVars
  /\ UNCHANGED ioVars
  /\ UNCHANGED serialVars
  /\ UNCHANGED opVars

\* h5_write(g, k, x2)
WriteSecond ==
  /\ cpc = "write_2"
  /\ LET r == h5_write(root, ckey, TypeOf(second), ValueOf(second))
     IN  root' = r.g /\ w_ok' = (w_ok /\ r.ok)
  /\ cpc' = "read"
  /\ UNCHANGED <<ckey, first, second, dest, dest_0, r_ok>>
  /\ UNCHANGED stridesVars
  /\ UNCHANGED ioVars
  /\ UNCHANGED serialVars
  /\ UNCHANGED opVars

\* h5_read(g, k, dest)
ReadBack ==
  /\ cpc = "read"
  /\ LET r == h5_read(root, ckey, TypeOf(second), dest)
     IN  dest' = r.val /\ r_ok' = r.ok
  /\ cpc' = "done"
  /\ UNCHANGED <<root, ckey, first, second, dest_0, w_ok>>
  /\ UNCHANGED stridesVars
  /\ UNCHANGED ioVars
  /\ UNCHANGED serialVars
  /\ UNCHANGED opVars

CodecNext == WriteFirst \/ WriteSecond \/ ReadBack

SpecCodec == CodecInit /\ [][CodecNext]_vars

(***************************************************************************)
(* Claims on the stride reconciliation.                                    *)
(***************************************************************************)
Positive(s) == \A i \in 1..Len(s) : s[i] > 0

\* The equations that relate numpy strides, HDF5 strides and parent shape.
ProductIdentity(np, res) ==
  \A d \in 1..Len(np) : np[d] = res.h5_strides[d] * ProductFrom(res.parent_shape, d + 1)

\* C1: for ranks 1 to 3, positive np_strides and positive view extents, the
\* result has two vectors of length rank, parent_shape[0] is the view size,
\* np_strides[d] = h5_strides[d] * product(parent_shape[d+1..]) for every d,
\* and every division of the algorithm is exact (and none is by zero).
C1_ProductIdentity ==
  (spc = "done" /\ Len(view_shape) \in 1..3 /\ Positive(np_strides) /\ Positive(view_shape))
    => /\ Len(strides_out.parent_shape) = Len(view_shape)
       /\ Len(strides_out.h5_strides) = Len(view_shape)
       /\ strides_out.parent_shape[1] = Product(view_shape)
       /\ ~strides_out.fault
       /\ strides_out.exact
       /\ ProductIdentity(np_strides, strides_out)

C1_Witness ==
  /\ spc = "done"
  /\ Len(view_shape) = 3 /\ Positive(np_strides) /\ Positive(view_shape)
  /\ strides_out.parent_shape[3] > 1
  /\ strides_out.parent_shape[2] > 1
  /\ strides_out.h5_strides[3] > 1

\* C2: for every pair <<np_strides, view_shape>> of the tests, the result
\* satisfies parent_shape[d] >= view_shape[d] * h5_strides[d] in every
\* dimension d.
C2_ParentExtentBound ==
  (spc = "done" /\ <<np_strides, view_shape>> \in TestedPairs)
    => \A d \in 1..Len(view_shape) :
         strides_out.parent_shape[d] >= view_shape[d] * strides_out.h5_strides[d]

(***************************************************************************)
(* C3: for a dataset D written from a full view of a buffer and any        *)
(* hyperslab S lying inside D's shape, reading D through S yields the same *)
(* elements in the same order as writing the view selecting S as a dataset *)
(* of its own and reading that dataset in full; every call returns         *)
(* normally.                                                               *)
(***************************************************************************)
IoAllDone == io_done = {"write_1", "write_2", "read_2", "read_3"}

C3_SlabEquivalence ==
  /\ io_ok
  /\ IoAllDone => /\ data_in_2 = data_in_3
                  /\ Len(data_in_3) = slab_size(view_2.slab)

\* a selection of a 2-D dataset that skips elements between its blocks in one
\* dimension and takes a block of several elements in the other
C3_Witness ==
  /\ IoAllDone
  /\ io_ok
  /\ Len(view_2.parent_shape) = 2
  /\ \A d \in 1..2 : view_2.parent_shape[d] > 1
  /\ \E d \in 1..2 : view_2.slab.count[d] > 1 /\ view_2.slab.stride[d] > view_2.slab.block[d]
  /\ \E d \in 1..2 : view_2.slab.block[d] > 1 /\ view_2.slab.count[d] > 0
  /\ Len(data_in_3) > 1
  /\ data_in_2 = data_in_3
  /\ data_in_3 # SubSeq(data, 1, Len(data_in_3))


(***************************************************************************)
(* C4: idempotent overwrite.  For values x1 and x2 of the types stored as  *)
(* a leaf dataset (scalar, string, numeric vector or array, char_buf) or   *)
(* as a subgroup (map, pair, tuple, vector of a generic type), after       *)
(* write(g, k, x1) and write(g, k, x2) both calls have returned normally,  *)
(* g has exactly one child named k, that child is the encoding of x2 alone *)
(* (what writing x2 to k in a new group gives), the other children of g    *)
(* are untouched, and reading k as the type of x2 returns x2.              *)
(***************************************************************************)
ListedValues == LeafValues \cup GroupValues

\* the child k of a new group after write(g, k, x) alone
EncodingAlone(v) == h5_write(NewGroup, ckey, TypeOf(v), ValueOf(v)).g.children[c_str(ckey)]

OverwriteCase == first # <<>> /\ first[1] \in ListedValues /\ second \in ListedValues

C4_IdempotentOverwrite ==
  /\ (OverwriteCase /\ cpc \in {"read", "done"}) =>
       /\ w_ok
       /\ c_str(ckey) \in DOMAIN root.children
       /\ root.children[c_str(ckey)] = EncodingAlone(second)
       /\ Drop(root.children, c_str(ckey)) \in {NewGroup.children, SiblingGroup.children}
  /\ (OverwriteCase /\ cpc = "done") => (r_ok /\ dest = ValueOf(second))

\* a pair stored as a subgroup with a Format tag and two children is
\* overwritten by a numeric vector stored as a dataset, in a group that holds
\* another child, and read into a vector that held other elements
C4_Witness ==
  /\ cpc = "done"
  /\ first = << V(t_pair(t_int, t_string), <<1, s_hi>>) >>
  /\ second = V(t_vector(t_int), <<>>)
  /\ s_b \in DOMAIN root.children
  /\ root.children[c_str(ckey)].kind = "dataset"
  /\ root.children[c_str(ckey)].attrs = <<>>
  /\ r_ok
  /\ dest = <<>>

\* the second value is a std::vector of arithmetic, complex or generic
\* (neither string nor optional) elements
NumericVector(T) == T.k = "vector" /\ (is_arithmetic(T.of) \/ is_complex(T.of))

GenericVector(T) == T.k = "vector" /\ T.of.k \in {"vector", "pair", "tuple", "map", "array"}

\* C5: a std::vector of arithmetic or complex elements is stored as one
\* dataset of rank 1 (with a trailing dimension 2 for complex), of extent 0
\* for the empty vector; a vector of generic elements as a subgroup with the
\* children "0" .. "n-1"; the write and the read succeed, and the read yields
\* the written vector whatever the destination held and whatever the key held
\* before, for lengths 0, 1..3 and LongLen > 10.
C5_VectorRoundTrip ==
  LET T    == TypeOf(second)
      v    == ValueOf(second)
      node == root.children[c_str(ckey)]
  IN  /\ (NumericVector(T) /\ cpc \in {"read", "done"}) =>
           /\ w_ok
           /\ has_dataset(root, ckey)
           /\ node.shape = (IF is_complex(T.of) THEN <<Len(v), 2>> ELSE <<Len(v)>>)
           /\ node.data = VectorBuf(T.of, v)
      /\ (GenericVector(T) /\ cpc \in {"read", "done"}) =>
           /\ w_ok
           /\ has_subgroup(root, ckey)
           /\ DOMAIN node.children = { to_string(i - 1) : i \in 1..Len(v) }
      /\ ((NumericVector(T) \/ GenericVector(T)) /\ cpc = "done") =>
           (r_ok /\ dest = v /\ Len(dest) = Len(v))

\* a vector of 11 generic elements, whose child "10" sorts before "2", was
\* written over a key that held a string and read back
C5_Witness ==
  /\ cpc = "done"
  /\ first = << V(t_string, s_hi) >>
  /\ TypeOf(second) = t_vec_vec_int
  /\ Len(ValueOf(second)) = LongLen
  /\ get_all_subgroup_dataset_names(SubGroup(root, ckey))[3] = to_string(10)
  /\ r_ok
  /\ dest = ValueOf(second)
  /\ dest[11] = <<11>>

\* the empty complex vector was stored as a dataset of extent 0 x 2 and read
\* back
C5_WitnessEmpty ==
  /\ cpc = "done"
  /\ second = V(t_vector(t_complex), <<>>)
  /\ root.children[c_str(ckey)].shape = <<0, 2>>
  /\ r_ok
  /\ dest = <<>>

\* the second value is a std::map whose values are not optionals
PlainMap(T) == T.k = "map" /\ T.val.k # "optional"

\* C6: a std::map is stored as a subgroup: with std::string keys one child
\* per entry, named by the key; with another key type one subgroup per entry,
\* numbered "0" .. "n-1", holding exactly the children "key" and "val".  The
\* write and the read succeed and the map read equals the map written,
\* the empty map included, whatever entries the destination held before.
C6_MapRoundTrip ==
  LET T    == TypeOf(second)
      m    == ValueOf(second)
      node == root.children[c_str(ckey)]
  IN  /\ (PlainMap(T) /\ cpc \in {"read", "done"}) =>
           /\ w_ok
           /\ has_subgroup(root, ckey)
           /\ IF T.key.k = "string"
              THEN DOMAIN node.children = DOMAIN m
              ELSE /\ DOMAIN node.children = { to_string(i - 1) : i \in 1..Cardinality(DOMAIN m) }
                   /\ \A n \in DOMAIN node.children :
                        /\ node.children[n].kind = "group"
                        /\ DOMAIN node.children[n].children = {s_key, s_val}
      /\ (PlainMap(T) /\ cpc = "done") =>
           /\ r_ok
           /\ dest = m
           /\ \A q \in DOMAIN dest_0 : q \in DOMAIN dest => (q \in DOMAIN m /\ dest[q] = m[q])

\* a map with int keys whose entries are not stored in key order of the names
\* ("0" holds key 3, "2" holds key 12) was read into a map that held entries
C6_WitnessIntKeys ==
  /\ cpc = "done"
  /\ TypeOf(second) = t_map(t_int, t_string)
  /\ DOMAIN ValueOf(second) = {3, 5, 12}
  /\ root.children[c_str(ckey)].children[to_string(2)].children[s_key].data = <<12>>
  /\ r_ok
  /\ dest = ValueOf(second)

\* a map with string keys was read into a map that held entries under other
\* keys, none of which is left
C6_Witness ==
  /\ cpc = "done"
  /\ second = V(t_map(t_string, t_int), (s_hi :> 5))
  /\ DOMAIN dest_0 = {s_a, s_b}
  /\ r_ok
  /\ DOMAIN dest = {s_hi}

\* C7: whether the key is absent or holds a value from an earlier write, after
\* h5_write(g, k, opt) a read of k into a std::optional<T> returns normally
\* and yields an optional equal to opt: engaged with the same value, or
\* disengaged.
C7_OptionalRoundTrip ==
  (TypeOf(second).k = "optional" /\ cpc = "done")
    => (w_ok /\ r_ok /\ dest = ValueOf(second))

\* C8: a std::vector of optionals, a std::pair or std::tuple with optional
\* members and a std::map with optional values, written to a fresh key and
\* read back, yield a value equal to the one written, disengaged elements
\* included, and the read returns normally.
C8_OptionalContainerRoundTrip ==
  (first = <<>> /\ second \in OptionalContainerValues /\ cpc = "done")
    => (w_ok /\ r_ok /\ dest = ValueOf(second))

\* C9: a std::variant over scalar, complex and string alternatives, written
\* and read back into a variant of the same type, holds the same alternative
\* (same index) with the same value, and the read returns normally.
C9_VariantRoundTrip ==
  (TypeOf(second).k = "variant" /\ cpc = "done")
    => (w_ok /\ r_ok /\ dest[1] = ValueOf(second)[1] /\ dest[2] = ValueOf(second)[2])

(***************************************************************************)
(* file.cpp, serialization.hpp: memory files, their byte image, serialize  *)
(* and deserialize.  The image of a file is the superblock followed by one *)
(* object header per object, in the order of a walk through the links; a   *)
(* file opened on an image holds the objects the headers describe.         *)
(***************************************************************************)
Superblock ==
  [path |-> <<>>, kind |-> "superblock", ty |-> NoType, shape |-> <<>>,
   data |-> <<>>, chunk |-> <<>>, attrs |-> <<>>]

ObjectHeader(path, node) ==
  [path |-> path, kind |-> node.kind, ty |-> node.ty, shape |-> node.shape,
   data |-> node.data, chunk |-> node.chunk, attrs |-> node.attrs]

RECURSIVE NodeImage(_, _)
RECURSIVE ChildImages(_, _, _, _)
NodeImage(path, node) ==
  <<ObjectHeader(path, node)>>
    \o ChildImages(path, node, SortedStrings(DOMAIN node.children), 1)

ChildImages(path, node, names, i) ==
  IF i > Len(names) THEN <<>>
  ELSE NodeImage(Append(path, names[i]), node.children[names[i]])
         \o ChildImages(path, node, names, i + 1)

\* H5Fget_file_image after H5Fflush
H5Fget_file_image(g) == <<Superblock>> \o NodeImage(<<>>, g)

\* the object whose header in the image buf carries the path
RECURSIVE NodeAt(_, _)
NodeAt(buf, path) ==
  LET e     == buf[CHOOSE i \in 2..Len(buf) : buf[i].path = path]
      below == { i \in 2..Len(buf) : /\ Len(buf[i].path) = Len(path) + 1
                                     /\ SubSeq(buf[i].path, 1, Len(path)) = path }
      names == { buf[i].path[Len(path) + 1] : i \in below }
  IN  [kind |-> e.kind, ty |-> e.ty, shape |-> e.shape, data |-> e.data,
       chunk |-> e.chunk, attrs |-> e.attrs,
       children |-> [n \in names |-> NodeAt(buf, Append(path, n))]]

\* file::file(): a new buffered memory file, holding the empty root group
file_memory == [ok |-> TRUE, g |-> NewGroup]

\* file::file(buf, size): H5Fopen on the image; it throws when the buffer
\* does not start with a superblock
file_from_buffer(buf) ==
  IF Len(buf) < 2 \/ buf[1].kind # "superblock" THEN [ok |-> FALSE, g |-> NewGroup]
  ELSE [ok |-> TRUE, g |-> NodeAt(buf, <<>>)]

\* file::as_buffer(): flush, size of the image (it throws unless > 0), copy
as_buffer(g) ==
  LET image == H5Fget_file_image(g)
  IN  IF Len(image) > 0 THEN [ok |-> TRUE, buf |-> image] ELSE [ok |-> FALSE, buf |-> <<>>]

\* serialize(x)
serialize(T, x) ==
  LET f == file_memory
      w == h5_write(f.g, s_object, T, x)
  IN  IF ~w.ok THEN [ok |-> FALSE, buf |-> <<>>] ELSE as_buffer(w.g)

\* h5_read<T>(g, key): T x{}; h5_read(g, key, x); return x
h5_read_value(g, key, T) == h5_read(g, key, T, Default(T))

\* read_hdf5_format(obj, s): whether the call returned normally, and s
read_hdf5_format(obj) ==
  LET r == h5_read_attribute(obj, s_Format)
  IN  IF r.ok /\ r.val = <<>> THEN h5_read_attribute(obj, s_TRIQS_HDF5_data_scheme) ELSE r

\* assert_hdf5_format_as_string(g, tag_expected, ignore_if_absent) returns
\* normally
assert_hdf5_format_as_string(g, tag_expected, ignore_if_absent) ==
  LET tag == read_hdf5_format(g)
  IN  /\ tag.ok
      /\ (ignore_if_absent /\ tag.val = <<>>) \/ tag.val = c_str(tag_expected)

\* try_read(g, key, x): whether the call threw, the value it returned (if it
\* did not throw), and x after the call
try_read(g, key, T, prior) ==
  IF has_key(g, key)
  THEN LET r == h5_read(g, key, T, prior)
       IN  [thrown |-> ~r.ok, ret |-> TRUE, val |-> r.val]
  ELSE [thrown |-> FALSE, ret |-> FALSE, val |-> prior]

\* deserialize<T>(buf)
deserialize(T, buf) ==
  LET f == file_from_buffer(buf)
  IN  IF ~f.ok THEN [ok |-> FALSE, val |-> Default(T)] ELSE h5_read_value(f.g, s_object, T)

(***************************************************************************)
(* The serialization scenario: a value is serialized and deserialized, or  *)
(* written to a memory file (empty, or holding "b") whose buffer is taken, *)
(* a file is built from the buffer and the value is read from both files.  *)
(***************************************************************************)
SerialInit ==
  /\ OpIdle
  /\ StridesIdle
  /\ IoIdle
  /\ CodecIdle
  /\ ser_pc = "start"
  /\ ser_x \in CodecValues
  /\ ser_mem \in {NewGroup, SiblingGroup}
  /\ ser_buf = <<>>
  /\ ser_out = [ok |-> TRUE, val |-> Default(TypeOf(ser_x))]
  /\ ser_ref = [ok |-> TRUE, val |-> Default(TypeOf(ser_x))]

\* buf = serialize(x)
SerializeCall ==
  /\ ser_pc = "start"
  /\ LET r == serialize(TypeOf(ser_x), ValueOf(ser_x))
     IN  /\ ser_buf' = r.buf
         /\ ser_pc' = IF r.ok THEN "serialized" ELSE "thrown"
  /\ UNCHANGED <<ser_x, ser_mem, ser_out, ser_ref>>
  /\ UNCHANGED stridesVars
  /\ UNCHANGED ioVars
  /\ UNCHANGED codecVars
  /\ UNCHANGED opVars

\* deserialize<T>(buf)
DeserializeCall ==
  /\ ser_pc = "serialized"
  /\ ser_out' = deserialize(TypeOf(ser_x), ser_buf)
  /\ ser_pc' = "deserialized"
  /\ UNCHANGED <<ser_x, ser_mem, ser_buf, ser_ref>>
  /\ UNCHANGED stridesVars
  /\ UNCHANGED ioVars
  /\ UNCHANGED codecVars
  /\ UNCHANGED opVars

\* h5::write(f_mem, "object", x)
MemFileWrite ==
  /\ ser_pc = "start"
  /\ LET w == h5_write(ser_mem, s_object, TypeOf(ser_x), ValueOf(ser_x))
     IN  /\ ser_mem' = w.g
         /\ ser_pc' = IF w.ok THEN "written" ELSE "thrown"
  /\ UNCHANGED <<ser_x, ser_buf, ser_out, ser_ref>>
  /\ UNCHANGED stridesVars
  /\ UNCHANGED ioVars
  /\ UNCHANGED codecVars
  /\ UNCHANGED opVars

\* buf_mem = f_mem.as_buffer()
AsBuffer ==
  /\ ser_pc = "written"
  /\ LET r == as_buffer(ser_mem)
     IN  /\ ser_buf' = r.buf
         /\ ser_pc' = IF r.ok THEN "buffered" ELSE "thrown"
  /\ UNCHANGED <<ser_x, ser_mem, ser_out, ser_ref>>
  /\ UNCHANGED stridesVars
  /\ UNCHANGED ioVars
  /\ UNCHANGED codecVars
  /\ UNCHANGED opVars

\* h5::read<T>(f, "object") for f = h5::file{buf_mem} and for f = f_mem
ReadBoth ==
  /\ ser_pc = "buffered"
  /\ LET f == file_from_buffer(ser_buf)
     IN  ser_out' = IF ~f.ok THEN [ok |-> FALSE, val |-> Default(TypeOf(ser_x))]
                    ELSE h5_read_value(f.g, s_object, TypeOf(ser_x))
  /\ ser_ref' = h5_read_value(ser_mem, s_object, TypeOf(ser_x))
  /\ ser_pc' = "compared"
  /\ UNCHANGED <<ser_x, ser_mem, ser_buf>>
  /\ UNCHANGED stridesVars
  /\ UNCHANGED ioVars
  /\ UNCHANGED codecVars
  /\ UNCHANGED opVars

SerialNext == SerializeCall \/ DeserializeCall \/ MemFileWrite \/ AsBuffer \/ ReadBoth

SpecSerial == SerialInit /\ [][SerialNext]_vars

\* C10: deserialize<T>(serialize(x)) returns normally and equals x for every
\* supported value x; and a file built from the buffer that as_buffer()
\* returns for a memory file gives, for every key, the same result of a read
\* as the memory file itself.
C10_SerializeRoundTrip ==
  /\ (ser_pc = "deserialized") => (ser_out.ok /\ ser_out.val = ValueOf(ser_x))
  /\ (ser_pc = "compared") =>
       /\ ser_out = ser_ref
       /\ file_from_buffer(ser_buf).ok
       /\ \A n \in DOMAIN ser_mem.children :
            h5_read_value(file_from_buffer(ser_buf).g, n, t_int) = h5_read_value(ser_mem, n, t_int)

(***************************************************************************)
(* The write_slice scenario: a dataset "view_1" exists, write_slice is     *)
(* called once with a view and a target slab, and after a call that        *)
(* returned normally the dataset is read back through the target slab.     *)
(***************************************************************************)
\* shapes of the existing dataset
SliceShapes == { <<>>, <<2>>, <<2, 2>> }

\* the values the dataset holds before the call: none of them is in a view
Before(n) == [i \in 1..n |-> 10 + i]

\* the views: a scalar, the selections of a buffer of shape <<3>> and the
\* contiguous selections of a buffer of shape <<2, 2>>
SliceViews(ty) ==
  { array_view(ty, <<0>>, 0, FALSE) }
    \cup { [array_view(ty, Iota(3), 1, FALSE) EXCEPT !.slab = sl, !.parent_shape = <<3>>] :
             sl \in SlabsInside(<<3>>) }
    \cup { [array_view(ty, Iota(4), 2, FALSE) EXCEPT !.slab = sl, !.parent_shape = <<2, 2>>] :
             sl \in { q \in SlabsInside(<<2, 2>>) : q.stride = <<1, 1>> /\ q.block = <<1, 1>> } }

\* the target slabs: the default-constructed one, slabs of rank 1 (inside the
\* extent <<3>>, so some of them leave the extent <<2>>) and slabs of rank 2
TargetSlabs == { EmptySlab } \cup SlabsInside(<<3>>) \cup SlabsInside(<<2, 2>>)

SliceInit ==
  /\ StridesIdle
  /\ IoIdle
  /\ CodecIdle
  /\ SerialIdle
  /\ op_pc = "call"
  /\ \E sh \in SliceShapes :
       op_g = [NewGroup EXCEPT !.children =
                 Put(<<>>, s_view_1,
                     [NewDataset(H5T_NATIVE_INT, sh, <<>>) EXCEPT !.data = Before(Product(sh))])]
  /\ op_g_0 = op_g
  /\ \E ty \in { H5T_NATIVE_INT, H5T_NATIVE_LONG } :
       \E v \in SliceViews(ty) : \E sl \in TargetSlabs : op_in = [v |-> v, sl |-> sl]
  /\ op_out = [ok |-> TRUE, rok |-> TRUE, buf |-> <<>>]

\* h5::array_interface::write_slice(file, "view_1", v, sl)
WriteSlice ==
  /\ op_pc = "call"
  /\ LET r == write_slice(op_g, s_view_1, op_in.v, op_in.sl)
     IN  /\ op_g' = r.g
         /\ op_out' = [op_out EXCEPT !.ok = r.ok]
  /\ op_pc' = "done"
  /\ UNCHANGED <<op_g_0, op_in>>
  /\ UNCHANGED stridesVars
  /\ UNCHANGED ioVars
  /\ UNCHANGED codecVars
  /\ UNCHANGED serialVars

\* h5::array_interface::read(file, "view_1", view_in, sl) into a buffer of
\* sl.size() zeros
ReadBackSlice ==
  /\ op_pc = "done" /\ op_out.ok
  /\ LET n       == slab_size(op_in.sl)
         view_in == FlatView(op_in.v.ty, Rep(n, 0), n)
         r       == read(op_g, s_view_1, view_in, op_in.sl)
     IN  op_out' = [op_out EXCEPT !.rok = r.ok, !.buf = r.buf]
  /\ op_pc' = "read_back"
  /\ UNCHANGED <<op_g, op_g_0, op_in>>
  /\ UNCHANGED stridesVars
  /\ UNCHANGED ioVars
  /\ UNCHANGED codecVars
  /\ UNCHANGED serialVars

SliceNext == WriteSlice \/ ReadBackSlice

SpecSlice == SliceInit /\ [][SliceNext]_vars

\* the dataset "view_1" of the group g
SliceDataset(g) == g.children[s_view_1]

\* the buffer elements a view selects, in row-major selection order
Selected(v) ==
  LET mem == make_mem_dspace(v).space
  IN  [i \in 1..Len(mem.sel) |-> v.buf[mem.sel[i]]]

\* the positions of a dataset of shape sh that the slab sl selects, in
\* row-major selection order
SelectedPositions(sh, sl) == H5Sselect_hyperslab(H5Screate_simple(sh), sl).sel

\* C11: for every existing dataset, every view v and every target slab sl,
\* of any rank and the default-constructed one included, write_slice throws
\* whenever v.slab.size() != sl.size() or the datatype of v is not equal to
\* the datatype of the dataset, and then no element of the dataset is changed.
C11_WriteSlicePreconditions ==
  (/\ op_pc = "done"
   /\ \/ slab_size(op_in.v.slab) # slab_size(op_in.sl)
      \/ ~hdf5_type_equal(op_in.v.ty, SliceDataset(op_g_0).ty))
    => (~op_out.ok /\ op_g = op_g_0)

\* the positions a slab selects for the array interface: a slab that is
\* empty() stands for the whole dataset (read)
SlicePositions(sh, sl) ==
  IF slab_empty(sl) THEN H5Screate_simple(sh).sel ELSE SelectedPositions(sh, sl)

\* the dataset keeps its shape and datatype, the elements selected by sl hold
\* the elements selected by v, in selection order, and the others are kept
SliceWritten ==
  LET ds0 == SliceDataset(op_g_0)
      ds1 == SliceDataset(op_g)
      pos == SlicePositions(ds0.shape, op_in.sl)
      src == Selected(op_in.v)
  IN  /\ ds1.shape = ds0.shape /\ ds1.ty = ds0.ty
      /\ Len(pos) = Len(src)
      /\ \A i \in 1..Len(pos) : ds1.data[pos[i]] = src[i]
      /\ \A q \in 1..Len(ds0.data) :
           (\A i \in 1..Len(pos) : pos[i] # q) => ds1.data[q] = ds0.data[q]

\* the read through sl returned normally with the elements selected by v
SliceReadBack == op_out.rok /\ op_out.buf = Selected(op_in.v)

SourceSlabs ==
  { EmptySlab } \cup SlabsInside(<<3>>)
    \cup { q \in SlabsInside(<<2, 2>>) : q.stride = <<1, 1>> /\ q.block = <<1, 1>> }

\* the views read into: a scalar and the selections of a buffer of shape <<3>>
DestViews(ty) ==
  { array_view(ty, <<0>>, 0, FALSE) }
    \cup { [array_view(ty, Iota(3), 1, FALSE) EXCEPT !.slab = sl, !.parent_shape = <<3>>] :
             sl \in SlabsInside(<<3>>) }

ReadInit ==
  /\ StridesIdle
  /\ IoIdle
  /\ CodecIdle
  /\ SerialIdle
  /\ op_pc = "call"
  /\ \E sh \in SliceShapes :
       \E ty \in { H5T_NATIVE_INT, H5T_NATIVE_LONG, H5T_IEEE_F16LE, str_dt } :
         op_g = [NewGroup EXCEPT !.children =
                   Put(<<>>, s_view_1,
                       [NewDataset(ty, sh, <<>>) EXCEPT !.data = Before(Product(sh))])]
  /\ op_g_0 = op_g
  /\ \E ty \in { H5T_NATIVE_INT, H5T_NATIVE_DOUBLE, str_dt } :
       \E v \in DestViews(ty) : \E sl \in SourceSlabs :
         op_in = [v |-> v, sl |-> sl, name |-> <<>>]
  /\ op_out = [ok |-> TRUE, warned |-> FALSE, buf |-> <<>>]

\* h5::array_interface::read(file, name, v, sl)
ReadCall ==
  /\ op_pc = "call"
  /\ \E name \in { s_view_1, s_view_2 } :
       /\ op_in' = [op_in EXCEPT !.name = name]
       /\ op_out' = read(op_g, name, op_in.v, op_in.sl)
  /\ op_pc' = "done"
  /\ UNCHANGED <<op_g, op_g_0>>
  /\ UNCHANGED stridesVars
  /\ UNCHANGED ioVars
  /\ UNCHANGED codecVars
  /\ UNCHANGED serialVars

ReadNext == ReadCall

SpecRead == ReadInit /\ [][ReadNext]_vars

\* the key read exists
ReadKeyExists == op_in.name \in DOMAIN op_g.children

\* the number of file elements selected: sl.size() when sl is given,
\* otherwise the product of the extents of the dataset
SelectedFileElements ==
  IF slab_empty(op_in.sl) THEN Product(SliceDataset(op_g).shape) ELSE slab_size(op_in.sl)

\* C13: read(g, name, v, sl) throws, without modifying any element of the
\* destination buffer, whenever the datatype class of v differs from the
\* class of the stored dataset, or the number of selected file elements
\* differs from v.slab.size(); reading a key that does not exist also throws.
C13_ReadHardFailures ==
  (/\ op_pc = "done"
   /\ \/ ~ReadKeyExists
      \/ op_in.v.ty.cls # SliceDataset(op_g).ty.cls
      \/ SelectedFileElements # Product(slab_shape(op_in.v.slab)))
    => (~op_out.ok /\ op_out.buf = op_in.v.buf)

\* a read of an existing dataset of int into a view of double was refused
C13_WitnessClass ==
  /\ op_pc = "done" /\ ReadKeyExists
  /\ op_in.v.ty = H5T_NATIVE_DOUBLE /\ SliceDataset(op_g).ty = H5T_NATIVE_INT
  /\ SelectedFileElements = slab_size(op_in.v.slab)
  /\ slab_size(op_in.v.slab) = 2
  /\ ~op_out.ok

\* a read of two elements of a dataset of int into a view of int that selects
\* three was refused, as was the read of the absent key
C13_Witness ==
  /\ op_pc = "done"
  /\ op_in.v.ty = H5T_NATIVE_INT /\ SliceDataset(op_g).ty = H5T_NATIVE_INT
  /\ slab_size(op_in.v.slab) = 3 /\ SelectedFileElements = 2
  /\ ~op_out.ok /\ op_out.buf = <<0, 1, 2>>

\* the call is a well-formed read of the existing dataset: the slab, if given,
\* is a selection within the extent of the dataset, and it selects as many
\* elements as the view
WellFormedRead ==
  /\ ReadKeyExists
  /\ slab_empty(op_in.sl)
       \/ (H5Sselect_ok(SliceDataset(op_g).shape, op_in.sl)
             /\ SlabInside(SliceDataset(op_g).shape, op_in.sl))
  /\ SelectedFileElements = slab_size(op_in.v.slab)

\* the stored datatype has the class of the requested one without being equal
SoftMismatch ==
  /\ op_in.v.ty.cls = SliceDataset(op_g).ty.cls
  /\ ~hdf5_type_equal(op_in.v.ty, SliceDataset(op_g).ty)

\* the elements of the dataset that the read selects, in selection order
SelectedFileData ==
  LET ds  == SliceDataset(op_g)
      pos == SlicePositions(ds.shape, op_in.sl)
  IN  [i \in 1..Len(pos) |-> ds.data[pos[i]]]

\* C14: when the stored datatype has the class of the requested datatype but
\* is not equal to it, read emits a warning and completes with the converted
\* values, for every stored datatype of that class, those without an entry
\* in the table of type names included.
C14_SoftMismatchCompletes ==
  (op_pc = "done" /\ WellFormedRead /\ SoftMismatch)
    => /\ op_out.ok /\ op_out.warned
       /\ Selected([op_in.v EXCEPT !.buf = op_out.buf]) = SelectedFileData

(***************************************************************************)
(* The complex scenario: a number z, an array or a vector of such numbers  *)
(* is stored under "a" in one of the encodings                             *)
(*   "real"      the real parts, written as double(s)                      *)
(*   "native"    written as std::complex<double>                           *)
(*   "legacy"    a subgroup with the scalars "r" and "i"                   *)
(*   "compound"  written as h5::dcplx_t                                    *)
(* and is read into a target of the complex type that holds some numbers   *)
(* already.                                                                *)
(***************************************************************************)
\* the doubles of the scenario
Reals == { -1, 0, 2 }

ComplexValues == Reals \X Reals

\* <<target type, value>>
ComplexTargets ==
  { <<t_complex, z>> : z \in ComplexValues }
    \cup { <<t_array(t_complex, 2), zs>> : zs \in SeqsOfLen(ComplexValues, 2) }
    \cup { <<t_vector(t_complex), zs>> :
             zs \in UNION { SeqsOfLen(ComplexValues, n) : n \in 0..2 } }

\* a target of type T that holds the number 7 + 7i everywhere
Sevens(T) ==
  CASE T.k = "complex" -> <<7, 7>>
    [] T.k = "array"   -> Rep(T.n, <<7, 7>>)
    [] T.k = "vector"  -> << <<7, 7>> >>

\* the type and the value of the real parts
RealType(T) ==
  CASE T.k = "complex" -> t_double
    [] T.k = "array"   -> t_array(t_double, T.n)
    [] T.k = "vector"  -> t_vector(t_double)

RealPart(T, z) == IF T.k = "complex" THEN z[1] ELSE [i \in 1..Len(z) |-> z[i][1]]

\* the complex numbers with the real parts of z and the imaginary part 0
RealAsComplex(T, z) ==
  IF T.k = "complex" THEN <<z[1], 0>> ELSE [i \in 1..Len(z) |-> <<z[i][1], 0>>]

ComplexInit ==
  /\ StridesIdle
  /\ IoIdle
  /\ CodecIdle
  /\ SerialIdle
  /\ op_pc = "store"
  /\ op_g = NewGroup
  /\ op_g_0 = NewGroup
  /\ \E tz \in ComplexTargets :
       \E enc \in (IF tz[1].k = "complex" THEN { "real", "native", "legacy", "compound" }
                   ELSE { "real", "native" }) :
         \E prior \in { Default(tz[1]), Sevens(tz[1]) } :
           op_in = [T |-> tz[1], z |-> tz[2], enc |-> enc, prior |-> prior]
  /\ op_out = [ok |-> TRUE, val |-> op_in.prior]

\* h5_write(file, "a", re) / h5_write(file, "a", z) /
\* h5_write(file, "a", dcplx_t{re, im}) / for the legacy encoding
\* g = create_group("a") with h5_write(g, "r", z.real()) and then
\* h5_write(g, "i", z.imag())
StoreEncoded ==
  /\ op_pc \in {"store", "store_i"}
  /\ LET T == op_in.T
         z == op_in.z
         legacy == op_in.enc = "legacy"
         cg == IF op_pc = "store" THEN create_group(op_g, s_a) ELSE [ok |-> TRUE, g |-> op_g]
         into == IF legacy THEN SubGroup(cg.g, s_a) ELSE op_g
         key == CASE ~legacy -> s_a
                  [] legacy /\ op_pc = "store" -> <<114>>
                  [] legacy /\ op_pc = "store_i" -> <<105>>
         Ty == CASE op_in.enc = "real"     -> RealType(T)
                 [] op_in.enc = "native"   -> T
                 [] op_in.enc = "legacy"   -> t_double
                 [] op_in.enc = "compound" -> t_dcplx
         x == CASE op_in.enc = "real" -> RealPart(T, z)
                [] legacy /\ op_pc = "store" -> z[1]
                [] legacy /\ op_pc = "store_i" -> z[2]
                [] OTHER -> z
         w == h5_write(into, key, Ty, x)
     IN  /\ (legacy => cg.ok)
         /\ w.ok
         /\ op_g' = (IF legacy THEN WithSubGroup(cg.g, s_a, w.g) ELSE w.g)
         /\ op_pc' = (IF legacy /\ op_pc = "store" THEN "store_i" ELSE "call")
  /\ UNCHANGED <<op_g_0, op_in, op_out>>
  /\ UNCHANGED stridesVars
  /\ UNCHANGED ioVars
  /\ UNCHANGED codecVars
  /\ UNCHANGED serialVars

\* h5_read(file, "a", x) with x of the complex type
ReadComplex ==
  /\ op_pc = "call"
  /\ op_out' = h5_read(op_g, s_a, op_in.T, op_in.prior)
  /\ op_pc' = "done"
  /\ UNCHANGED <<op_g, op_g_0, op_in>>
  /\ UNCHANGED stridesVars
  /\ UNCHANGED ioVars
  /\ UNCHANGED codecVars
  /\ UNCHANGED serialVars

ComplexNext == StoreEncoded \/ ReadComplex

SpecComplex == ComplexInit /\ [][ComplexNext]_vars

\* C15: for a scalar std::complex<double> target, a std::array of them and a
\* std::vector of them alike, reading a dataset of doubles written from real
\* data (no "__complex__" attribute) completes and yields each stored value
\* as the real part with the imaginary part 0.
C15_RealIntoComplex ==
  (op_pc = "done" /\ op_in.enc = "real")
    => (op_out.ok /\ op_out.val = RealAsComplex(op_in.T, op_in.z))

\* the shape of a value of the type T without the complex dimension
LogicalShape(T, z) == IF T.k = "complex" THEN <<>> ELSE <<Len(z)>>

\* the stored object "a"
Stored == op_g.children[s_a]

\* the native encoding: a dataset of doubles of the logical rank + 1 with the
\* trailing extent 2, holding the real and imaginary parts in turn and
\* carrying the attribute "__complex__"
NativeEncoding ==
  /\ Stored.kind = "dataset"
  /\ Stored.ty = H5T_NATIVE_DOUBLE
  /\ Stored.shape = LogicalShape(op_in.T, op_in.z) \o <<2>>
  /\ Stored.data = (IF op_in.T.k = "complex" THEN op_in.z ELSE Flatten(op_in.z))
  /\ s_complex \in DOMAIN Stored.attrs

\* C16: a std::complex<double> scalar, array or vector is stored as a dataset
\* of doubles whose rank is the logical rank + 1 with trailing extent 2 and
\* which carries the attribute "__complex__"; get_dataset_info reports
\* has_complex_attribute = true exactly for the datasets carrying it; and
\* h5_read into std::complex<double> returns z from each of the three stored
\* encodings of z: the native one, the legacy subgroup with the scalars "r"
\* and "i", and a dataset of the compound datatype {r, i}.
C16_ComplexEncodings ==
  /\ (op_pc \in {"call", "done"} /\ op_in.enc = "native") => NativeEncoding
  /\ (op_pc \in {"call", "done"} /\ Stored.kind = "dataset")
       => (get_dataset_info(Stored).has_complex_attribute <=> op_in.enc = "native")
  /\ (op_pc = "done" /\ op_in.T.k = "complex" /\ op_in.enc \in {"native", "legacy", "compound"})
       => (op_out.ok /\ op_out.val = op_in.z)

\* 2 - i has been read from each of the three encodings into a variable that
\* held 7 + 7i
C16_WitnessNative ==
  /\ op_pc = "done" /\ op_in.T.k = "complex" /\ op_in.enc = "native"
  /\ op_in.z = <<2, -1>> /\ op_in.prior = <<7, 7>> /\ op_out.val = <<2, -1>>

C16_WitnessLegacy ==
  /\ op_pc = "done" /\ op_in.T.k = "complex" /\ op_in.enc = "legacy"
  /\ Stored.kind = "group"
  /\ op_in.z = <<2, -1>> /\ op_in.prior = <<7, 7>> /\ op_out.val = <<2, -1>>

C16_Witness ==
  /\ op_pc = "done" /\ op_in.T.k = "complex" /\ op_in.enc = "compound"
  /\ Stored.ty = cplx_cmpd_dt /\ Stored.shape = <<>>
  /\ op_in.z = <<2, -1>> /\ op_in.prior = <<7, 7>> /\ op_out.val = <<2, -1>>

(***************************************************************************)
(* The attribute scenario: an object holds no attribute, a numeric or a    *)
(* string attribute "a", or the attribute "Format"; one attribute is       *)
(* written through one of the overloads, and a scalar that was written is  *)
(* read back into a variable of its type.                                  *)
(***************************************************************************)
\* the objects of the scenario: without attributes, with a numeric or a
\* string attribute "a", with the attribute "Format"
AttrObject(i) ==
  CASE i = 1 -> NewGroup
    [] i = 2 -> [NewGroup EXCEPT !.attrs =
                   Put(<<>>, s_a, [ty |-> H5T_NATIVE_INT, shape |-> <<>>, data |-> <<5>>])]
    [] i = 3 -> [NewGroup EXCEPT !.attrs = Put(<<>>, s_a, StringAttr(s_hi))]
    [] i = 4 -> [NewGroup EXCEPT !.attrs = Put(<<>>, s_Format, StringAttr(s_List))]

AttrNames == { s_a, s_b, s_Format }

\* the calls [how, name, T, x] of each overload
ArithmeticAttrWrites ==
  { [how |-> "scalar", name |-> n, T |-> T, x |-> x] :
      n \in AttrNames, T \in { t_int, t_long, t_double }, x \in Reals }

ComplexAttrWrites ==
  { [how |-> "scalar", name |-> n, T |-> t_complex, x |-> z] :
      n \in AttrNames, z \in ComplexValues }

StringAttrWrites ==
  { [how |-> "string", name |-> n, T |-> t_string, x |-> x] :
      n \in AttrNames, x \in { <<>>, s_hi, s_Dict } }

CharBufAttrWrites ==
  { [how |-> "char_buf", name |-> n, T |-> t_char_buf, x |-> to_char_buf(v)] :
      n \in AttrNames, v \in { <<>>, <<s_hi>>, <<s_a, s_hi>> } }

FormatAttrWrites ==
  { [how |-> "format", name |-> s_Format, T |-> T, x |-> <<>>] :
      T \in { t_vector(t_string), t_map(t_string, t_int), t_pair(t_int, t_int) } }

AttrInit ==
  /\ StridesIdle
  /\ IoIdle
  /\ CodecIdle
  /\ SerialIdle
  /\ op_pc = "call"
  /\ \E i \in 1..4 : op_g = AttrObject(i)
  /\ op_g_0 = op_g
  /\ \/ op_in \in ArithmeticAttrWrites
     \/ op_in \in ComplexAttrWrites
     \/ op_in \in StringAttrWrites
     \/ op_in \in CharBufAttrWrites
     \/ op_in \in FormatAttrWrites
  /\ op_out = [ok |-> TRUE, rok |-> TRUE, val |-> <<>>]

\* h5_write_attribute(obj, name, x) / write_hdf5_format(obj, x)
WriteAttribute ==
  /\ op_pc = "call"
  /\ LET r == CASE op_in.how = "scalar"   ->
                     h5_write_attribute_scalar(op_g, op_in.name, op_in.T, op_in.x)
                [] op_in.how = "string"   -> h5_write_attribute(op_g, op_in.name, op_in.x)
                [] op_in.how = "char_buf" ->
                     h5_write_attribute_char_buf(op_g, op_in.name, op_in.x)
                [] op_in.how = "format"   -> write_hdf5_format(op_g, op_in.T)
     IN  /\ op_g' = r.g
         /\ op_out' = [op_out EXCEPT !.ok = r.ok]
  /\ op_pc' = "done"
  /\ UNCHANGED <<op_g_0, op_in>>
  /\ UNCHANGED stridesVars
  /\ UNCHANGED ioVars
  /\ UNCHANGED codecVars
  /\ UNCHANGED serialVars

\* h5_read_attribute(obj, name, y) with y of the type of x, holding 7 (7 + 7i)
ReadAttribute ==
  /\ op_pc = "done" /\ op_out.ok /\ op_in.how = "scalar"
  /\ LET r == h5_read_attribute_scalar(op_g, op_in.name, op_in.T,
                                       IF is_complex(op_in.T) THEN <<7, 7>> ELSE 7)
     IN  op_out' = [op_out EXCEPT !.rok = r.ok, !.val = r.val]
  /\ op_pc' = "read_back"
  /\ UNCHANGED <<op_g, op_g_0, op_in>>
  /\ UNCHANGED stridesVars
  /\ UNCHANGED ioVars
  /\ UNCHANGED codecVars
  /\ UNCHANGED serialVars

AttrNext == WriteAttribute \/ ReadAttribute

SpecAttr == AttrInit /\ [][AttrNext]_vars

\* the attribute written exists already
AttributeExists == op_in.name \in DOMAIN op_g_0.attrs

\* C17: writing an attribute whose name already exists on the object, through
\* array_interface::write_attribute (numeric scalars), through the
\* std::string or char_buf overloads of h5_write_attribute, or through
\* write_hdf5_format on an object that has a "Format" attribute, throws, and
\* the existing attribute keeps the value it had before the call.
C17_AttributesNotOverwritten ==
  (op_pc = "done" /\ AttributeExists)
    => (~op_out.ok /\ op_g.attrs[op_in.name] = op_g_0.attrs[op_in.name])

\* the string "Dict" was not written over the attribute "a" that holds 5
C17_Witness ==
  /\ op_pc = "done" /\ op_in.how = "string" /\ op_in.name = s_a /\ op_in.x = s_Dict
  /\ op_g_0 = AttrObject(2)
  /\ ~op_out.ok /\ op_g.attrs[s_a] = [ty |-> H5T_NATIVE_INT, shape |-> <<>>, data |-> <<5>>]

\* C18: for every arithmetic scalar type and for std::complex,
\* h5_write_attribute(obj, name, x) on a name not yet present followed by
\* h5_read_attribute(obj, name, y) with y of the same type completes without
\* error and leaves y == x.
C18_ScalarAttributeRoundTrip ==
  /\ (op_pc = "done" /\ op_in.how = "scalar" /\ ~AttributeExists) => op_out.ok
  /\ (op_pc = "read_back" /\ ~AttributeExists) => (op_out.rok /\ op_out.val = op_in.x)

(***************************************************************************)
(* The try_read scenario: a value is written under "a" to a group that is  *)
(* empty or holds "b", then try_read is called for the key "a", "b" or ""  *)
(* with a variable of some type that holds a value already.                *)
(***************************************************************************)
\* <<type, value>> written
TryWritten ==
  { V(t_int, 2), V(t_double, -1), V(t_complex, <<2, -1>>), V(t_string, s_hi),
    V(t_vector(t_int), <<1, 2>>), V(t_vector(t_string), <<s_a, s_hi>>),
    V(t_optional(t_int), <<>>), V(t_pair(t_int, t_string), <<2, s_hi>>) }

\* <<type, value>> of the variable read into
TryTargets ==
  { V(t_int, 7), V(t_double, 7), V(t_complex, <<7, 7>>), V(t_string, s_k),
    V(t_vector(t_int), <<7>>), V(t_vector(t_string), <<s_k>>),
    V(t_optional(t_int), <<7>>), V(t_pair(t_int, t_string), <<7, s_k>>) }

TryInit ==
  /\ StridesIdle
  /\ IoIdle
  /\ CodecIdle
  /\ SerialIdle
  /\ op_pc = "store"
  /\ op_g \in { NewGroup, SiblingGroup }
  /\ op_g_0 = op_g
  /\ \E w \in TryWritten : \E t \in TryTargets : \E key \in { s_a, s_b, <<>> } :
       op_in = [w |-> w, T |-> TypeOf(t), prior |-> ValueOf(t), key |-> key]
  /\ op_out = [thrown |-> FALSE, ret |-> FALSE, val |-> op_in.prior]

\* h5_write(g, "a", w)
TryStore ==
  /\ op_pc = "store"
  /\ LET r == h5_write(op_g, s_a, TypeOf(op_in.w), ValueOf(op_in.w))
     IN  r.ok /\ op_g' = r.g
  /\ op_pc' = "call"
  /\ UNCHANGED <<op_g_0, op_in, op_out>>
  /\ UNCHANGED stridesVars
  /\ UNCHANGED ioVars
  /\ UNCHANGED codecVars
  /\ UNCHANGED serialVars

\* try_read(g, key, x)
TryRead ==
  /\ op_pc = "call"
  /\ op_out' = try_read(op_g, op_in.key, op_in.T, op_in.prior)
  /\ op_pc' = "done"
  /\ UNCHANGED <<op_g, op_g_0, op_in>>
  /\ UNCHANGED stridesVars
  /\ UNCHANGED ioVars
  /\ UNCHANGED codecVars
  /\ UNCHANGED serialVars

TryNext == TryStore \/ TryRead

SpecTry == TryInit /\ [][TryNext]_vars

\* the group has a link named key
LinkExists == op_in.key \in DOMAIN op_g.children

\* what h5_read(g, key, x) does for the arguments of the call
SameRead == h5_read(op_g, op_in.key, op_in.T, op_in.prior)

\* C19: try_read(g, key, x) returns false and leaves x unmodified when g has
\* no link named key; when the link exists it performs exactly the read that
\* h5_read(g, key, x) performs and returns true; a failure of that read is
\* propagated to the caller as an exception and is never reported as false.
C19_TryRead ==
  /\ (op_pc = "done" /\ ~LinkExists)
       => (~op_out.thrown /\ ~op_out.ret /\ op_out.val = op_in.prior)
  /\ (op_pc = "done" /\ LinkExists)
       => /\ op_out.val = SameRead.val
          /\ op_out.thrown = ~SameRead.ok
          /\ ~op_out.thrown => op_out.ret

(***************************************************************************)
(* The format scenario: a group carries any of the attributes "Format" and *)
(* "TRIQS_HDF5_data_scheme", or is the group that h5_write made for a      *)
(* std::map; assert_hdf5_format_as_string is called on it.                 *)
(***************************************************************************)
\* the values of a tag attribute, <<>> standing for the absent attribute and
\* << s >> for the attribute holding s
TagValues == { <<>>, << <<>> >>, <<s_Dict>>, <<s_List>>, <<s_hi>> }

\* the group with the attributes "Format" = f and "TRIQS_HDF5_data_scheme" = l
TaggedGroup(f, l) ==
  LET g1 == IF f = <<>> THEN NewGroup ELSE h5_write_attribute(NewGroup, s_Format, f[1]).g
  IN  IF l = <<>> THEN g1 ELSE h5_write_attribute(g1, s_TRIQS_HDF5_data_scheme, l[1]).g

ExpectedTags == { <<>>, s_Dict, s_List, s_hi }

\* the maps written
FormatMaps == { <<>>, (s_a :> 1), (s_a :> 1) @@ (s_b :> 2) }

FormatInit ==
  /\ StridesIdle
  /\ IoIdle
  /\ CodecIdle
  /\ SerialIdle
  /\ \/ /\ op_pc = "call"
        /\ \E f \in TagValues : \E l \in TagValues : op_g = TaggedGroup(f, l)
        /\ \E e \in ExpectedTags : \E ign \in BOOLEAN :
             op_in = [m |-> <<>>, expected |-> e, ignore_if_absent |-> ign]
     \/ /\ op_pc = "store"
        /\ op_g = NewGroup
        /\ \E m \in FormatMaps : \E e \in ExpectedTags : \E ign \in BOOLEAN :
             op_in = [m |-> m, expected |-> e, ignore_if_absent |-> ign]
  /\ op_g_0 = op_g
  /\ op_out = [ok |-> TRUE]

\* h5_write(file, "a", m) for a std::map<std::string, int> m; g = open_group("a")
StoreMap ==
  /\ op_pc = "store"
  /\ LET r == h5_write(op_g, s_a, t_map(t_string, t_int), op_in.m)
     IN  r.ok /\ op_g' = SubGroup(r.g, s_a)
  /\ op_pc' = "stored"
  /\ UNCHANGED <<op_g_0, op_in, op_out>>
  /\ UNCHANGED stridesVars
  /\ UNCHANGED ioVars
  /\ UNCHANGED codecVars
  /\ UNCHANGED serialVars

\* assert_hdf5_format_as_string(g, expected, ignore_if_absent)
AssertFormat ==
  /\ op_pc \in {"call", "stored"}
  /\ op_out' = [ok |-> assert_hdf5_format_as_string(op_g, op_in.expected, op_in.ignore_if_absent)]
  /\ op_pc' = IF op_pc = "call" THEN "done" ELSE "done_map"
  /\ UNCHANGED <<op_g, op_g_0, op_in>>
  /\ UNCHANGED stridesVars
  /\ UNCHANGED ioVars
  /\ UNCHANGED codecVars
  /\ UNCHANGED serialVars

FormatNext == StoreMap \/ AssertFormat

SpecFormat == FormatInit /\ [][FormatNext]_vars

\* the tag of the group: its "Format" attribute, or the legacy attribute when
\* "Format" is absent, or the empty string when both are absent
Tag ==
  IF s_Format \in DOMAIN op_g.attrs THEN op_g.attrs[s_Format].data[1]
  ELSE IF s_TRIQS_HDF5_data_scheme \in DOMAIN op_g.attrs
  THEN op_g.attrs[s_TRIQS_HDF5_data_scheme].data[1]
  ELSE <<>>

\* the outcome the claim gives for a tag
FormatCheckPasses(tag) ==
  IF tag # <<>> THEN tag = op_in.expected
  ELSE op_in.ignore_if_absent \/ op_in.expected = <<>>

\* C20: the tag of a group is its "Format" attribute, or the legacy
\* "TRIQS_HDF5_data_scheme" attribute when "Format" is absent, or the empty
\* string when both are absent.  assert_hdf5_format_as_string(g, expected,
\* ignore_if_absent) fails when the tag is non-empty and differs from
\* expected, succeeds when the tag equals expected, succeeds silently when
\* ignore_if_absent is true and the tag is empty, and with ignore_if_absent
\* false and no tag present fails unless expected is empty.  After writing a
\* std::map to a group, expected "Dict" is accepted and every other expected
\* tag is rejected.
C20_FormatTagCheck ==
  /\ (op_pc \in {"call", "done"}) => (read_hdf5_format(op_g).ok /\ read_hdf5_format(op_g).val = Tag)
  /\ (op_pc = "done") => (op_out.ok <=> FormatCheckPasses(Tag))
  /\ (op_pc = "done_map") => (op_out.ok <=> op_in.expected = s_Dict)

(***************************************************************************)
(* The char_buf scenario: a vector of strings, or a vector of vectors of   *)
(* strings, none with an embedded null character, is converted with        *)
(* to_char_buf; the char_buf is kept in memory, or written to the dataset  *)
(* "a" or the attribute "a" and read back; from_char_buf converts the      *)
(* result.                                                                 *)
(***************************************************************************)
MaxStrings == 3

MaxRows == 2

MaxRowLen == 2

\* "", "a", "bc"
CharBufStrings == { <<>>, <<97>>, <<98, 99>> }

\* <<number of dimensions, table>>
CharBufTables ==
  { <<1, v>> : v \in UNION { SeqsOfLen(CharBufStrings, n) : n \in 0..MaxStrings } }
    \cup { <<2, vv>> :
             vv \in UNION { SeqsOfLen(UNION { SeqsOfLen(CharBufStrings, l) : l \in 0..MaxRowLen }, n) :
                              n \in 0..MaxRows } }

\* char_buf cb;
EmptyCharBuf == [buffer |-> <<>>, lengths |-> <<>>]

CharBufInit ==
  /\ StridesIdle
  /\ IoIdle
  /\ CodecIdle
  /\ SerialIdle
  /\ op_pc = "start"
  /\ op_g = NewGroup
  /\ op_g_0 = NewGroup
  /\ \E t \in CharBufTables : \E via \in { "memory", "dataset", "attribute" } :
       op_in = [dim |-> t[1], v |-> t[2], via |-> via]
  /\ op_out = [ok |-> TRUE, cb |-> EmptyCharBuf, val |-> <<>>]

\* cb = to_char_buf(v)
ToCharBuf ==
  /\ op_pc = "start"
  /\ op_out' = [op_out EXCEPT !.cb = IF op_in.dim = 1 THEN to_char_buf(op_in.v)
                                     ELSE to_char_buf_2(op_in.v)]
  /\ op_pc' = "buffered"
  /\ UNCHANGED <<op_g, op_g_0, op_in>>
  /\ UNCHANGED stridesVars
  /\ UNCHANGED ioVars
  /\ UNCHANGED codecVars
  /\ UNCHANGED serialVars

\* h5_write(g, "a", cb) / h5_write_attribute(g, "a", cb)
StoreCharBuf ==
  /\ op_pc = "buffered"
  /\ op_in.via # "memory"
  /\ LET w == IF op_in.via = "dataset" THEN h5_write_char_buf(op_g, s_a, op_out.cb)
              ELSE h5_write_attribute_char_buf(op_g, s_a, op_out.cb)
     IN  /\ op_g' = w.g
         /\ op_out' = [op_out EXCEPT !.ok = w.ok]
  /\ op_pc' = "stored"
  /\ UNCHANGED <<op_g_0, op_in>>
  /\ UNCHANGED stridesVars
  /\ UNCHANGED ioVars
  /\ UNCHANGED codecVars
  /\ UNCHANGED serialVars

\* char_buf cb_in; h5_read(g, "a", cb_in) / h5_read_attribute(g, "a", cb_in)
LoadCharBuf ==
  /\ op_pc = "stored"
  /\ op_out.ok
  /\ LET r == IF op_in.via = "dataset" THEN h5_read_char_buf(op_g, s_a, EmptyCharBuf)
              ELSE h5_read_attribute_char_buf(op_g, s_a, EmptyCharBuf)
     IN  op_out' = [op_out EXCEPT !.ok = r.ok, !.cb = r.val]
  /\ op_pc' = "loaded"
  /\ UNCHANGED <<op_g, op_g_0, op_in>>
  /\ UNCHANGED stridesVars
  /\ UNCHANGED ioVars
  /\ UNCHANGED codecVars
  /\ UNCHANGED serialVars

\* from_char_buf(cb, v_in)
FromCharBuf ==
  /\ \/ op_pc = "buffered" /\ op_in.via = "memory"
     \/ op_pc = "loaded" /\ op_out.ok
  /\ op_out' = [op_out EXCEPT !.val = IF op_in.dim = 1 THEN from_char_buf(op_out.cb)
                                      ELSE from_char_buf_2(op_out.cb)]
  /\ op_pc' = "done"
  /\ UNCHANGED <<op_g, op_g_0, op_in>>
  /\ UNCHANGED stridesVars
  /\ UNCHANGED ioVars
  /\ UNCHANGED codecVars
  /\ UNCHANGED serialVars

CharBufNext == ToCharBuf \/ StoreCharBuf \/ LoadCharBuf \/ FromCharBuf

SpecCharBuf == CharBufInit /\ [][CharBufNext]_vars

\* C21: from_char_buf(to_char_buf(v)) = v for every vector of strings and
\* every vector of vectors of strings without embedded null characters,
\* ragged tables included, also when the char_buf goes through a dataset or
\* an attribute in between.
C21_CharBufRoundTrip ==
  /\ (op_pc \in {"stored", "loaded"}) => op_out.ok
  /\ (op_pc = "done") => (op_out.val = op_in.v)

\* the strings of the table of the scenario
TableStrings ==
  IF op_in.dim = 1 THEN { op_in.v[i] : i \in 1..Len(op_in.v) }
  ELSE UNION { { op_in.v[i][j] : j \in 1..Len(op_in.v[i]) } : i \in 1..Len(op_in.v) }

\* the largest number of S, and d if S is empty
Largest(S, d) == IF S = {} THEN d ELSE CHOOSE x \in S : \A y \in S : y <= x

\* the slot size s = max(1, 1 + the length of the longest string)
SlotSize == 1 + Largest({ Len(str) : str \in TableStrings }, 0)

\* the length m of the longest inner vector
InnerSize == Largest({ Len(op_in.v[i]) : i \in 1..Len(op_in.v) }, 0)

\* the k-th slot of s characters of the buffer
Slot(cb, k, sz) == SubSeq(cb.buffer, (k - 1) * sz + 1, k * sz)

\* a slot that holds str at its start and zeros after it
SlotOf(str, sz) == str \o Rep(sz - Len(str), 0)

\* C22: to_char_buf of n strings returns lengths = {n, s} with
\* s = max(1, 1 + longest string length), and of a table of vectors
\* lengths = {n_outer, m, s} with m the length of the longest inner vector;
\* the buffer has max(1, product(lengths)) characters, every string is at the
\* start of its own slot of s characters with only zeros after it, and the
\* slot of every absent inner entry is all zeros.
C22_CharBufLayout ==
  (op_pc = "buffered") =>
    LET cb == op_out.cb
        v  == op_in.v
    IN  /\ cb.lengths = (IF op_in.dim = 1 THEN <<Len(v), SlotSize>>
                         ELSE <<Len(v), InnerSize, SlotSize>>)
        /\ Len(cb.buffer) = Max(1, Product(cb.lengths))
        /\ op_in.dim = 1 =>
             \A i \in 1..Len(v) : Slot(cb, i, SlotSize) = SlotOf(v[i], SlotSize)
        /\ op_in.dim = 2 =>
             \A i \in 1..Len(v) : \A j \in 1..InnerSize :
               Slot(cb, (i - 1) * InnerSize + j, SlotSize) =
                 (IF j <= Len(v[i]) THEN SlotOf(v[i][j], SlotSize) ELSE Rep(SlotSize, 0))

\* to_char_buf({{"a", "bc"}, {"a"}}) has returned the lengths {2, 2, 3} and
\* four slots, the last one all zeros
C22_Witness ==
  /\ op_pc = "buffered"
  /\ op_in.dim = 2
  /\ op_in.v = << <<<<97>>, <<98, 99>>>>, <<<<97>>>> >>
  /\ op_out.cb.lengths = <<2, 2, 3>>
  /\ op_out.cb.buffer = <<97, 0, 0, 98, 99, 0, 97, 0, 0, 0, 0, 0>>

(***************************************************************************)
(* hsize_t: unsigned integers of 64 bits, held as the sequence of their 8  *)
(* bytes, the least significant first.  The operators work on numbers of   *)
(* any number of bytes and wrap at the number of bytes of their first      *)
(* argument.                                                               *)
(***************************************************************************)
\* the byte k of a, 0 above its bytes
ByteAt(a, k) == IF k \in 1..Len(a) THEN a[k] ELSE 0

\* the w bytes of the number n of the model's integers (n < 2^31 has 4 bytes)
Bytes(n, w) ==
  SubSeq([k \in 1..w |-> IF k <= 4 THEN (n \div (256 ^ (k - 1))) % 256 ELSE 0], 1, w)

hsize_t(n) == Bytes(n, 8)

\* a with w bytes: zeros are added or the upper bytes are cut
Widen(a, w) == SubSeq([k \in 1..w |-> ByteAt(a, k)], 1, w)

\* whether a + b carries into the byte k: a byte below k overflows and the
\* bytes between pass the carry on
Carry(a, b, k) ==
  \E j \in 1..(k - 1) : a[j] + b[j] >= 256 /\ \A i \in (j + 1)..(k - 1) : a[i] + b[i] = 255

\* a + b, wrapping at the number of bytes of a
AddBytes(a, b) ==
  SubSeq([k \in 1..Len(a) |-> (a[k] + b[k] + (IF Carry(a, b, k) THEN 1 ELSE 0)) % 256],
         1, Len(a))

hsize_add(a, b) == AddBytes(a, Widen(b, Len(a)))

\* whether a - b borrows from the byte k
Borrow(a, b, k) ==
  \E j \in 1..(k - 1) : a[j] < b[j] /\ \A i \in (j + 1)..(k - 1) : a[i] = b[i]

\* a - b, wrapping at the number of bytes of a
SubBytes(a, b) ==
  SubSeq([k \in 1..Len(a) |-> (256 + a[k] - b[k] - (IF Borrow(a, b, k) THEN 1 ELSE 0)) % 256],
         1, Len(a))

hsize_sub(a, b) == SubBytes(a, Widen(b, Len(a)))

\* a < b, for numbers of the same number of bytes
LessBytes(a, b) ==
  \E k \in 1..Len(a) : a[k] < b[k] /\ \A j \in (k + 1)..Len(a) : a[j] = b[j]

hsize_less(a, b) == LessBytes(Widen(a, Max(Len(a), Len(b))), Widen(b, Max(Len(a), Len(b))))

hsize_leq(a, b) == ~hsize_less(b, a)

\* a * d for one byte d, wrapping at the number of bytes of a: the low bytes
\* of the products byte by byte plus their high bytes one place up
MulByte(a, d) ==
  AddBytes(SubSeq([k \in 1..Len(a) |-> (a[k] * d) % 256], 1, Len(a)),
           SubSeq([k \in 1..Len(a) |-> (ByteAt(a, k - 1) * d) \div 256], 1, Len(a)))

\* a[1] * b[k] + a[2] * b[k - 1] + ... + a[i] * b[k + 1 - i]
RECURSIVE Column(_, _, _, _)
Column(a, b, k, i) == IF i = 0 THEN 0 ELSE a[i] * b[k + 1 - i] + Column(a, b, k, i - 1)

\* the number whose column k holds cols[k] < 2^24
SumColumns(cols) ==
  AddBytes(AddBytes(SubSeq([k \in 1..Len(cols) |-> cols[k] % 256], 1, Len(cols)),
                    SubSeq([k \in 1..Len(cols) |-> (ByteAt(cols, k - 1) \div 256) % 256],
                           1, Len(cols))),
           SubSeq([k \in 1..Len(cols) |-> ByteAt(cols, k - 2) \div 65536], 1, Len(cols)))

\* a * b for numbers of the same number of bytes, wrapping at it
MulBytes(a, b) == SumColumns(SubSeq([k \in 1..Len(a) |-> Column(a, b, k, k)], 1, Len(a)))

hsize_mul(a, b) == MulBytes(a, Widen(b, Len(a)))

\* the highest byte of b # 0 that is not 0
Top(b) == CHOOSE k \in 1..Len(b) : b[k] # 0 /\ \A j \in (k + 1)..Len(b) : b[j] = 0

\* r / b for r < 256 * b, from the three bytes of r and the two bytes of b
\* from the highest byte of b down: the quotient or one more
QuotientEstimate(r, b, n) ==
  LET q == ((ByteAt(r, n + 1) * 256 + ByteAt(r, n)) * 256 + ByteAt(r, n - 1))
             \div (ByteAt(b, n) * 256 + ByteAt(b, n - 1))
  IN  IF q > 255 THEN 255 ELSE q

\* the byte r / b, for r < 256 * b
QuotientByte(r, b, qhat) == IF hsize_leq(MulByte(b, qhat), r) THEN qhat ELSE qhat - 1

\* the quotient of a by b # 0, by long division over the bytes k .. 1 of a,
\* the highest byte first; rem is the remainder of the bytes above k
RECURSIVE DivBytes(_, _, _, _)
DivBytes(a, b, k, rem) ==
  IF k = 0 THEN <<>>
  ELSE LET r     == SubSeq(<<a[k]>> \o rem, 1, Len(b))
           digit == QuotientByte(r, b, QuotientEstimate(r, b, Top(b)))
       IN  <<digit>> \o DivBytes(a, b, k - 1, SubBytes(r, MulByte(b, digit)))

\* a / b for b # 0
hsize_div(a, b) ==
  LET q == DivBytes(a, Widen(b, Len(a) + 1), Len(a), Bytes(0, Len(a) + 1))
  IN  SubSeq([k \in 1..Len(a) |-> q[Len(a) + 1 - k]], 1, Len(a))

\* a with the bit k, which is 0 in a, set to 1
SetBit(a, k) ==
  SubSeq(a, 1, k \div 8) \o <<a[(k \div 8) + 1] + 2 ^ (k % 8)>> \o SubSeq(a, (k \div 8) + 2, Len(a))

\* 2^k as hsize_t
Pow2(k) == SetBit(hsize_t(0), k)

\* hsize_t const max_chunk_size = hsize_t{1UL << 32} - hsize_t{1}
max_chunk_size == hsize_sub(Pow2(32), hsize_t(1))

\* A slip of the clamp: the upper limit is left out (the chunk is the shape).
hsize_clamp_below_only(x, lo, hi) == IF hsize_less(x, lo) THEN lo ELSE x

\* std::clamp(x, lo, hi) of hsize_t for lo <= hi
hsize_clamp(x, lo, hi) == IF hsize_less(x, lo) THEN lo ELSE IF hsize_less(hi, x) THEN hi ELSE x

\* one pass of the body of the chunk loop of write, for i = st.i: whether the
\* assertion held (a build without assertions goes on) and whether the
\* division had the divisor 0 (the result of which is then taken as 0)
chunk_loop_body(hs_shape, st) ==
  LET asserted == hsize_leq(st.chunk_size, max_chunk_size)
      zero     == st.chunk_size = hsize_t(0)
      max_dim  == IF zero THEN hsize_t(0) ELSE hsize_div(max_chunk_size, st.chunk_size)
      c        == hsize_clamp(hs_shape[st.i + 1], hsize_t(1), max_dim)
  IN  [i          |-> st.i - 1,
       chunk_dims |-> SetAt(st.chunk_dims, st.i + 1, c),
       chunk_size |-> hsize_mul(st.chunk_size, c),
       max_dim    |-> max_dim,
       asserted   |-> st.asserted /\ asserted,
       div_zero   |-> st.div_zero \/ zero]

(***************************************************************************)
(* The chunking scenario: the chunk loop of write runs, one pass per step, *)
(* for a datatype of some size and the shape of a hyperslab of rank        *)
(* 1 .. MaxChunkRank.                                                      *)
(***************************************************************************)
MaxChunkRank == 2

\* H5Tget_size(v.ty): 1, 8, 16, 2^16, 2^31, 2^32 - 1
ElementSizes ==
  { hsize_t(1), hsize_t(8), hsize_t(16), Pow2(16), Pow2(31), max_chunk_size }

\* extents of hs_shape: 0, 1, 3, 70000, 2^32 - 1, 2^32, 2^64 - 1
Extents ==
  { hsize_t(0), hsize_t(1), hsize_t(3), hsize_t(70000), max_chunk_size, Pow2(32),
    hsize_sub(hsize_t(0), hsize_t(1)) }

ChunkInit ==
  /\ StridesIdle
  /\ IoIdle
  /\ CodecIdle
  /\ SerialIdle
  /\ op_pc = "loop"
  /\ op_g = <<>>
  /\ op_g_0 = <<>>
  /\ \E n_dims \in 1..MaxChunkRank : \E hs_shape \in SeqsOfLen(Extents, n_dims) :
       \E size \in ElementSizes :
         /\ op_in = [size |-> size, hs_shape |-> hs_shape]
         /\ op_out = [i          |-> n_dims - 1,
                      chunk_dims |-> Rep(n_dims, hsize_t(0)),
                      chunk_size |-> size,
                      max_dim    |-> hsize_t(0),
                      asserted   |-> TRUE,
                      div_zero   |-> FALSE]

\* one pass of for (int i = v.rank() - 1; i >= 0; --i) { ... }
ChunkPass ==
  /\ op_pc = "loop"
  /\ op_out' = chunk_loop_body(op_in.hs_shape, op_out)
  /\ op_pc' = IF op_out.i = 0 THEN "done" ELSE "loop"
  /\ UNCHANGED <<op_g, op_g_0, op_in>>
  /\ UNCHANGED stridesVars
  /\ UNCHANGED ioVars
  /\ UNCHANGED codecVars
  /\ UNCHANGED serialVars

ChunkNext == ChunkPass

SpecChunk == ChunkInit /\ [][ChunkNext]_vars

\* the dimensions the walk has passed, fastest-varying first
Walked == [k \in 1..(Len(op_in.hs_shape) - 1 - op_out.i) |-> Len(op_in.hs_shape) + 1 - k]

\* element_size * product of the chunk extents of the dimensions in ds, in
\* numbers of 12 bytes; once a partial product is above the ceiling and the
\* next extent is at least 1 the product stays above it
RECURSIVE ChunkBytes(_, _, _)
ChunkBytes(size, chunk_dims, ds) ==
  IF ds = <<>> THEN Widen(size, 12)
  ELSE LET before == ChunkBytes(size, chunk_dims, SubSeq(ds, 1, Len(ds) - 1))
           c      == chunk_dims[ds[Len(ds)]]
       IN  IF hsize_less(max_chunk_size, before) /\ c # hsize_t(0) THEN before
           ELSE hsize_mul(before, c)

\* C23: with compress = true and rank > 0, for every on-disk shape and every
\* element size of at most 2^32 - 1, at every step of the walk from the
\* fastest-varying dimension outward: the assertion inside the loop has held
\* and no division had a zero divisor, the running chunk byte size is at most
\* 2^32 - 1 and equals element_size * product(chunk extents so far) without
\* wrapping, and every derived chunk extent is at least 1 and at most
\* max(1, on-disk extent).
C23_ChunkCeiling ==
  op_pc \in {"loop", "done"} /\ hsize_leq(op_in.size, max_chunk_size) =>
    /\ op_out.asserted
    /\ ~op_out.div_zero
    /\ hsize_leq(op_out.chunk_size, max_chunk_size)
    /\ Widen(op_out.chunk_size, 12) = ChunkBytes(op_in.size, op_out.chunk_dims, Walked)
    /\ \A k \in 1..Len(Walked) :
         /\ hsize_leq(hsize_t(1), op_out.chunk_dims[Walked[k]])
         /\ hsize_leq(op_out.chunk_dims[Walked[k]],
                      IF op_in.hs_shape[Walked[k]] = hsize_t(0) THEN hsize_t(1)
                      ELSE op_in.hs_shape[Walked[k]])

\* a finished walk over an 8-byte datatype and the shape (3, 2^32): the inner
\* extent was capped at (2^32 - 1) / 8 and the outer one at 1
C23_Witness ==
  /\ op_pc = "done"
  /\ op_in.size = hsize_t(8)
  /\ op_in.hs_shape = <<hsize_t(3), Pow2(32)>>
  /\ op_out.chunk_dims = <<hsize_t(1), hsize_div(max_chunk_size, hsize_t(8))>>
  /\ hsize_less(op_out.chunk_dims[1], op_in.hs_shape[1])

(***************************************************************************)
(* The degenerate and the arbitrary inputs of                              *)
(* get_parent_shape_and_h5_strides.                                        *)
(***************************************************************************)
\* C24: called with view_size = 0 and a rank >= 1, whatever np_strides holds,
\* get_parent_shape_and_h5_strides returns a parent_shape of rank zeros and
\* h5_strides of rank ones, and it does not read np_strides (the call with a
\* np_strides of no elements returns the same); called with rank 0 it returns
\* two empty vectors.
C24_EmptyView ==
  spc = "done" =>
    /\ (Len(view_shape) >= 1 /\ Product(view_shape) = 0) =>
         /\ ~strides_out.fault
         /\ strides_out.parent_shape = Rep(Len(view_shape), 0)
         /\ strides_out.h5_strides = Rep(Len(view_shape), 1)
         /\ get_parent_shape_and_h5_strides(<<>>, Len(view_shape), 0) = strides_out
    /\ Len(view_shape) = 0 =>
         /\ strides_out.parent_shape = <<>>
         /\ strides_out.h5_strides = <<>>
         /\ ~strides_out.fault

\* the call for the strides {4, 2, 1} of a view of shape {2, 0, 2} has
\* returned {0, 0, 0} and {1, 1, 1}
C24_Witness ==
  /\ spc = "done"
  /\ np_strides = <<4, 2, 1>>
  /\ view_shape = <<2, 0, 2>>
  /\ strides_out.parent_shape = <<0, 0, 0>>
  /\ strides_out.h5_strides = <<1, 1, 1>>

\* the inputs of C28: a view that is not empty, of rank >= 1
ArbitraryStrides == Len(view_shape) >= 1 /\ Product(view_shape) > 0

ReturnsConsistent ==
  /\ ~strides_out.fault
  /\ strides_out.exact
  /\ Len(strides_out.parent_shape) = Len(view_shape)
  /\ Len(strides_out.h5_strides) = Len(view_shape)
  /\ ProductIdentity(np_strides, strides_out)

\* C28 as stated: for view_size > 0, rank >= 1 and any np_strides of
\* non-negative entries, zeros included, the function returns normally (no
\* gcd it divides by is 0) with vectors of length rank that satisfy
\* np_strides[d] = h5_strides[d] * product(parent_shape[d+1 ..]) for every d.
C28_Original == (spc = "done" /\ ArbitraryStrides) => ReturnsConsistent

\* C28, amended: the same for the np_strides whose entry of the slowest
\* dimension, np_strides[0], is positive when rank >= 2; the other entries may
\* be 0 and no entry need be a multiple of another.
C28_ArbitraryStrides ==
  (spc = "done" /\ ArbitraryStrides /\ (Len(view_shape) >= 2 => np_strides[1] > 0))
    => ReturnsConsistent

\* the call for the strides {3, 0, 2} has returned normally
C28_Witness ==
  /\ spc = "done"
  /\ ArbitraryStrides
  /\ np_strides = <<3, 0, 2>>
  /\ ~strides_out.fault
  /\ strides_out.parent_shape[2] = 1
  /\ strides_out.h5_strides = <<1, 0, 2>>

(***************************************************************************)
(* The block scenario: a dataset "view_1" of shape <<4>> or <<2, 2>> and a *)
(* hyperslab on it whose block is left empty or set to ones; one of        *)
(* shape(), size(), read and write_slice is called with it.                *)
(***************************************************************************)
\* the values 0 .. MaxJunk stand for what lies beyond the end of a vector
MaxJunk == 2

BlockShapes == { <<4>>, <<2, 2>> }

\* hyperslabs inside sh with counts of 1 or 2, with and without a block
BlockSlabs(sh) ==
  { [offset |-> o, stride |-> st, count |-> c, block |-> b] :
      o \in SeqsOfLen(0..1, Len(sh)), st \in SeqsOfLen(1..2, Len(sh)),
      c \in SeqsOfLen(1..2, Len(sh)), b \in { <<>>, Rep(Len(sh), 1) } }

\* sl with its block set to ones
WithOnes(sl) == [sl EXCEPT !.block = Rep(slab_rank(sl), 1)]

NoCall == [fault |-> FALSE, shape |-> <<>>, size |-> 0, ok |-> TRUE, buf |-> <<>>]

BlockInit ==
  /\ StridesIdle
  /\ IoIdle
  /\ CodecIdle
  /\ SerialIdle
  /\ op_pc = "call"
  /\ \E sh \in BlockShapes :
       /\ op_g = [NewGroup EXCEPT !.children =
                    Put(<<>>, s_view_1,
                        [NewDataset(H5T_NATIVE_INT, sh, <<>>) EXCEPT !.data = Before(Product(sh))])]
       /\ \E sl \in BlockSlabs(sh) : \E extra \in 0..1 :
            /\ SlabInside(sh, sl)
            /\ op_in = [sl |-> sl, n |-> Product(sl.count) + extra]
  /\ op_g_0 = op_g
  /\ op_out = NoCall

\* sl.shape()
CallShape ==
  /\ op_pc = "call"
  /\ \E o \in shape_outcomes(op_in.sl, 0..MaxJunk) :
       op_out' = [NoCall EXCEPT !.fault = o.fault, !.shape = o.shape]
  /\ op_pc' = "shape"
  /\ UNCHANGED <<op_g, op_g_0, op_in>>
  /\ UNCHANGED stridesVars
  /\ UNCHANGED ioVars
  /\ UNCHANGED codecVars
  /\ UNCHANGED serialVars

\* sl.size()
CallSize ==
  /\ op_pc = "call"
  /\ \E o \in shape_outcomes(op_in.sl, 0..MaxJunk) :
       op_out' = [NoCall EXCEPT !.fault = o.fault, !.size = Product(o.shape)]
  /\ op_pc' = "size"
  /\ UNCHANGED <<op_g, op_g_0, op_in>>
  /\ UNCHANGED stridesVars
  /\ UNCHANGED ioVars
  /\ UNCHANGED codecVars
  /\ UNCHANGED serialVars

ReadOutcome(o, r) == [NoCall EXCEPT !.fault = o.fault, !.ok = r.ok, !.buf = r.buf]

\* h5::array_interface::read(file, "view_1", view_in, sl) into a buffer of n
\* zeros
CallRead ==
  /\ op_pc = "call"
  /\ \E o \in shape_outcomes(op_in.sl, 0..MaxJunk) :
       op_out' =
         IF o.fault THEN [NoCall EXCEPT !.fault = TRUE, !.ok = FALSE]
         ELSE ReadOutcome(o, read_sized(op_g, s_view_1,
                                        FlatView(H5T_NATIVE_INT, Rep(op_in.n, 0), op_in.n),
                                        op_in.sl, Product(o.shape)))
  /\ op_pc' = "read"
  /\ UNCHANGED <<op_g, op_g_0, op_in>>
  /\ UNCHANGED stridesVars
  /\ UNCHANGED ioVars
  /\ UNCHANGED codecVars
  /\ UNCHANGED serialVars

WriteOutcome(o, w) == [ok |-> w.ok, g |-> w.g, fault |-> o.fault]

\* h5::array_interface::write_slice(file, "view_1", v, sl) from a buffer of
\* the n values 1 .. n
CallWriteSlice ==
  /\ op_pc = "call"
  /\ \E o \in shape_outcomes(op_in.sl, 0..MaxJunk) :
       LET w == IF o.fault THEN [ok |-> FALSE, g |-> op_g, fault |-> TRUE]
                ELSE WriteOutcome(o, write_slice_sized(op_g, s_view_1,
                                     FlatView(H5T_NATIVE_INT, Iota(op_in.n), op_in.n),
                                     op_in.sl, Product(o.shape)))
       IN  /\ op_g' = w.g
           /\ op_out' = [NoCall EXCEPT !.fault = w.fault, !.ok = w.ok]
  /\ op_pc' = "write_slice"
  /\ UNCHANGED <<op_g_0, op_in>>
  /\ UNCHANGED stridesVars
  /\ UNCHANGED ioVars
  /\ UNCHANGED codecVars
  /\ UNCHANGED serialVars

BlockNext == CallShape \/ CallSize \/ CallRead \/ CallWriteSlice

SpecBlock == BlockInit /\ [][BlockNext]_vars

\* the result of read with the block of sl set to ones
ReadWithOnes ==
  read(op_g_0, s_view_1, FlatView(H5T_NATIVE_INT, Rep(op_in.n, 0), op_in.n), WithOnes(op_in.sl))

\* the result of write_slice with the block of sl set to ones
WriteSliceWithOnes ==
  write_slice(op_g_0, s_view_1, FlatView(H5T_NATIVE_INT, Iota(op_in.n), op_in.n),
              WithOnes(op_in.sl))

\* C29: a hyperslab whose count has rank r >= 1 and whose block is left empty
\* behaves as if block were r ones: shape() returns count, size() returns the
\* product of count, and read and write_slice given such a slab as file
\* selection return, transfer and fail as they do for the slab with r ones.
C29_EmptyBlockAsOnes ==
  op_in.sl.block = <<>> =>
    /\ ~op_out.fault
    /\ op_pc = "shape" => op_out.shape = op_in.sl.count
    /\ op_pc = "size" => op_out.size = Product(op_in.sl.count)
    /\ op_pc = "read" => op_out.ok = ReadWithOnes.ok /\ op_out.buf = ReadWithOnes.buf
    /\ op_pc = "write_slice" => op_out.ok = WriteSliceWithOnes.ok /\ op_g = WriteSliceWithOnes.g

(***************************************************************************)
(* Files on disk.  The file at the path of the scenario is absent or holds *)
(* a set of links; a handle is its id (negative: invalid) and whether it   *)
(* was opened for writing.                                                 *)
(***************************************************************************)
H5F_ACC_RDONLY == "H5F_ACC_RDONLY"
H5F_ACC_RDWR == "H5F_ACC_RDWR"
H5F_ACC_TRUNC == "H5F_ACC_TRUNC"
H5F_ACC_EXCL == "H5F_ACC_EXCL"

NoFile == [exists |-> FALSE, links |-> {}]

NewFile == [exists |-> TRUE, links |-> {}]

\* H5Fopen(name, flags, H5P_DEFAULT): the flags of H5Fcreate are invalid file
\* open flags; the file has to exist
H5Fopen(fs, flags) ==
  IF flags \in {H5F_ACC_TRUNC, H5F_ACC_EXCL} THEN [id |-> -1, fs |-> fs, rw |-> FALSE]
  ELSE IF ~fs.exists THEN [id |-> -1, fs |-> fs, rw |-> FALSE]
  ELSE [id |-> 1, fs |-> fs, rw |-> flags = H5F_ACC_RDWR]

\* H5Fcreate(name, flags, H5P_DEFAULT, H5P_DEFAULT): H5F_ACC_TRUNC truncates an
\* existing file, H5F_ACC_EXCL fails for one
H5Fcreate(fs, flags) ==
  IF flags = H5F_ACC_EXCL /\ fs.exists THEN [id |-> -1, fs |-> fs, rw |-> FALSE]
  ELSE [id |-> 1, fs |-> NewFile, rw |-> TRUE]

\* the mode 'e' as file.hpp describes it: H5Fcreate with H5F_ACC_EXCL
file_mode_e_creates(fs) == H5Fcreate(fs, H5F_ACC_EXCL)

\* case 'e': id = H5Fopen(name, H5F_ACC_EXCL, H5P_DEFAULT)
file_mode_e(fs) == H5Fopen(fs, H5F_ACC_EXCL)

\* case 'a': H5Fcreate with H5F_ACC_EXCL and, if that failed, H5Fopen
file_mode_a(fs) ==
  IF H5Fcreate(fs, H5F_ACC_EXCL).id < 0 THEN H5Fopen(fs, H5F_ACC_RDWR)
  ELSE H5Fcreate(fs, H5F_ACC_EXCL)

\* file::file(const char *name, char mode): the handle, the file on disk after
\* the call and whether the constructor threw
file_ctor(fs, mode) ==
  IF mode \notin {"r", "w", "a", "e"}
  THEN [id |-> 0, fs |-> fs, rw |-> FALSE, thrown |-> TRUE]
  ELSE LET h == CASE mode = "r" -> H5Fopen(fs, H5F_ACC_RDONLY)
                  [] mode = "w" -> H5Fcreate(fs, H5F_ACC_TRUNC)
                  [] mode = "a" -> file_mode_a(fs)
                  [] mode = "e" -> file_mode_e(fs)
       IN  [id |-> h.id, fs |-> h.fs, rw |-> h.rw, thrown |-> h.id < 0]

(***************************************************************************)
(* The file scenario: files are constructed on one path in all modes, used *)
(* to create links, closed and removed from disk.                          *)
(***************************************************************************)
FileModes == {"r", "w", "a", "e", "x", "R"}

LinkNames == {"a", "b", "c"}

NoHandle == [mode |-> "", existed |-> FALSE, links |-> {}, id |-> 0, rw |-> FALSE,
             thrown |-> FALSE]

FileInit ==
  /\ StridesIdle
  /\ IoIdle
  /\ CodecIdle
  /\ SerialIdle
  /\ op_pc = "closed"
  /\ op_g = NoFile
  /\ op_g_0 = NoFile
  /\ op_in = ""
  /\ op_out = NoHandle

\* h5::file file(fname, mode); op_out keeps the mode, what was on disk before
\* the call and the handle
ConstructFile ==
  /\ op_pc = "closed"
  /\ \E mode \in FileModes :
       LET f == file_ctor(op_g, mode)
       IN  /\ op_in' = mode
           /\ op_g' = f.fs
           /\ op_out' = [mode |-> mode, existed |-> op_g.exists, links |-> op_g.links,
                         id |-> f.id, rw |-> f.rw, thrown |-> f.thrown]
           /\ op_pc' = IF f.thrown THEN "closed" ELSE "open"
  /\ op_g_0' = op_g
  /\ UNCHANGED stridesVars
  /\ UNCHANGED ioVars
  /\ UNCHANGED codecVars
  /\ UNCHANGED serialVars

\* a group or a dataset is created in the file opened for writing
CreateLink ==
  /\ op_pc = "open" /\ op_out.rw
  /\ \E n \in LinkNames : op_g' = [op_g EXCEPT !.links = @ \cup {n}]
  /\ op_pc' = "used"
  /\ UNCHANGED <<op_g_0, op_in, op_out>>
  /\ UNCHANGED stridesVars
  /\ UNCHANGED ioVars
  /\ UNCHANGED codecVars
  /\ UNCHANGED serialVars

\* the file goes out of scope
CloseFile ==
  /\ op_pc \in {"open", "used"}
  /\ op_pc' = "closed"
  /\ UNCHANGED <<op_g, op_g_0, op_in, op_out>>
  /\ UNCHANGED stridesVars
  /\ UNCHANGED ioVars
  /\ UNCHANGED codecVars
  /\ UNCHANGED serialVars

\* std::filesystem::remove(fname)
RemoveFile ==
  /\ op_pc = "closed" /\ op_g.exists
  /\ op_g' = NoFile
  /\ UNCHANGED <<op_pc, op_g_0, op_in, op_out>>
  /\ UNCHANGED stridesVars
  /\ UNCHANGED ioVars
  /\ UNCHANGED codecVars
  /\ UNCHANGED serialVars

FileNext == ConstructFile \/ CreateLink \/ CloseFile \/ RemoveFile

SpecFile == FileInit /\ [][FileNext]_vars

\* the constructor has returned or thrown and nothing was done since
Constructed(mode) == op_in = mode /\ op_out.mode = mode /\ op_g_0.exists = op_out.existed
                     /\ (op_pc = "open" \/ (op_pc = "closed" /\ op_out.thrown /\ op_g = op_g_0))

\* C25: 'r' opens an existing file and throws when none exists; 'w' yields a
\* valid, empty file in both cases; 'a' creates the file when none exists and
\* opens the existing file read-write, keeping its content, when one exists;
\* 'e' creates a new file and returns a valid handle when none exists and
\* throws when one exists; every other mode character throws.
C25_OpenModes ==
  /\ Constructed("r") =>
       IF op_out.existed THEN ~op_out.thrown /\ op_out.id > 0 /\ op_g = op_g_0
       ELSE op_out.thrown
  /\ Constructed("w") => ~op_out.thrown /\ op_out.id > 0 /\ op_g = NewFile
  /\ Constructed("a") =>
       /\ ~op_out.thrown /\ op_out.id > 0 /\ op_out.rw
       /\ op_g = (IF op_out.existed THEN op_g_0 ELSE NewFile)
  /\ Constructed("e") =>
       IF op_out.existed THEN op_out.thrown /\ op_g = op_g_0
       ELSE ~op_out.thrown /\ op_out.id > 0 /\ op_g = NewFile
  /\ \A mode \in FileModes \ {"r", "w", "a", "e"} : Constructed(mode) => op_out.thrown

(***************************************************************************)
(* HDF5 ids and h5::object.  rc[id] is the reference count of the id (0:   *)
(* the id is not valid), hs[k] the handle in slot k: whether an h5::object *)
(* lives there and the id it stores.  The id 0 is never valid.             *)
(***************************************************************************)
MaxIds == 3
MaxHandles == 3

Ids == 1..MaxIds

Slots == 1..MaxHandles

\* the ids of the library's own datatypes (H5T_NATIVE_INT, ...): the library
\* holds one reference to each
PredefinedIds == {1}

H5Iis_valid(rc, id) == id \in DOMAIN rc /\ rc[id] > 0

H5Iinc_ref(rc, id) == SetAt(rc, id, rc[id] + 1)

H5Idec_ref(rc, id) == SetAt(rc, id, rc[id] - 1)

\* if (H5Iis_valid(id)) H5Idec_ref(id);
xdecref(rc, id) == IF H5Iis_valid(rc, id) THEN H5Idec_ref(rc, id) ELSE rc

\* if (H5Iis_valid(id)) H5Iinc_ref(id);
xincref(rc, id) == IF H5Iis_valid(rc, id) THEN H5Iinc_ref(rc, id) ELSE rc

Live(id) == [live |-> TRUE, id |-> id]

Dead == [live |-> FALSE, id |-> 0]

\* object(hid_t id = 0) : id(id) {} in the slot k
object_ctor(st, k, id) == [rc |-> st.rc, hs |-> SetAt(st.hs, k, Live(id))]

\* object::from_borrowed(hid_t id), the object returned in the slot k
from_borrowed(st, k, id) == [rc |-> xincref(st.rc, id), hs |-> SetAt(st.hs, k, Live(id))]

\* object(object const &x) : id(x.id) { xincref(id); }
object_copy_ctor(st, k, x) ==
  [rc |-> xincref(st.rc, st.hs[x].id), hs |-> SetAt(st.hs, k, Live(st.hs[x].id))]

\* object(object &&x) noexcept : id(x.id) { x.id = 0; }
object_move_ctor(st, k, x) ==
  [rc |-> st.rc, hs |-> SetAt(SetAt(st.hs, k, Live(st.hs[x].id)), x, Live(0))]

\* A slip of the move assignment: the id held so far is not released.
object_move_assign_no_decref(st, a, x) ==
  [rc |-> st.rc, hs |-> SetAt(SetAt(st.hs, a, Live(st.hs[x].id)), x, Live(0))]

\* object &operator=(object &&x): xdecref(id); id = x.id; x.id = 0;
object_move_assign(st, a, x) ==
  [rc |-> xdecref(st.rc, st.hs[a].id),
   hs |-> SetAt(SetAt(st.hs, a, Live(st.hs[x].id)), x, Live(0))]

\* void close(): xdecref(id); id = 0;
object_close(st, a) == [rc |-> xdecref(st.rc, st.hs[a].id), hs |-> SetAt(st.hs, a, Live(0))]

\* ~object() { close(); }
object_dtor(st, a) == [rc |-> object_close(st, a).rc, hs |-> SetAt(st.hs, a, Dead)]

\* object &operator=(object const &x) { operator=(object(x)); return *this; }
\* the temporary object(x) lives in a slot behind the others and is destroyed
\* at the end of the statement
CopyAssigned(st, a, x, t) ==
  object_dtor(object_move_assign(object_copy_ctor(st, t, x), a, t), t)

object_copy_assign(st, a, x) ==
  [rc |-> CopyAssigned([rc |-> st.rc, hs |-> st.hs \o <<Dead>>], a, x, Len(st.hs) + 1).rc,
   hs |-> SubSeq(CopyAssigned([rc |-> st.rc, hs |-> st.hs \o <<Dead>>], a, x, Len(st.hs) + 1).hs,
                 1, Len(st.hs))]

\* the number of live handles that store id
HandlesOf(hs, id) == Cardinality({k \in Slots : hs[k].live /\ hs[k].id = id})

\* detail::hid_t_of<T>() for T = int and T = bool: the id of the library's
\* H5T_NATIVE_INT, and for bool the id that H5Tenum_create returns, a new id
\* (next) with one reference
hid_t_of(rc, T, next) ==
  IF T = "bool" THEN [id |-> next, rc |-> SetAt(rc, next, 1), created |-> {next}]
  ELSE [id |-> CHOOSE id \in PredefinedIds : TRUE, rc |-> rc, created |-> {}]

\* hdf5_type<T>() { return object::from_borrowed(detail::hid_t_of<T>()); }
\* with the datatype returned in the slot k
hdf5_type_object(st, k, T, next) ==
  from_borrowed([rc |-> hid_t_of(st.rc, T, next).rc, hs |-> st.hs], k, hid_t_of(st.rc, T, next).id)

(***************************************************************************)
(* The object scenario: handles are constructed, copied, moved, assigned,  *)
(* closed and destroyed in MaxHandles slots.  op_g is [rc, hs], op_g_0 the *)
(* ids given out so far and, per id, the references that no handle owns;   *)
(* op_in is the last operation and op_out the state before it.             *)
(***************************************************************************)
ObjectTypes == {"int", "bool"}

NoOperation == [op |-> "none", a |-> 0, x |-> 0, T |-> "", created |-> {}]

Operation(op, a, x) == [NoOperation EXCEPT !.op = op, !.a = a, !.x = x]

ObjectInit ==
  /\ StridesIdle
  /\ IoIdle
  /\ CodecIdle
  /\ SerialIdle
  /\ op_pc = "run"
  /\ op_g = [rc |-> [id \in Ids |-> IF id \in PredefinedIds THEN 1 ELSE 0],
             hs |-> [k \in Slots |-> Dead]]
  /\ op_g_0 = [used    |-> PredefinedIds,
               outside |-> [id \in Ids |-> IF id \in PredefinedIds THEN 1 ELSE 0]]
  /\ op_in = NoOperation
  /\ op_out = op_g

\* the next id the library gives out
NextId == CHOOSE id \in Ids \ op_g_0.used : \A other \in Ids \ op_g_0.used : id <= other

Step(op, after) ==
  /\ op_pc \in {"run", "dropped"}
  /\ op_g' = after
  /\ op_in' = op
  /\ op_out' = op_g
  /\ op_pc' = "run"
  /\ UNCHANGED stridesVars
  /\ UNCHANGED ioVars
  /\ UNCHANGED codecVars
  /\ UNCHANGED serialVars

\* h5::object h = H5Xcreate(...): a new id with one reference is handed to the
\* constructor that takes ownership
ConstructOwning ==
  /\ Ids \ op_g_0.used # {}
  /\ \E k \in Slots :
       /\ ~op_g.hs[k].live
       /\ Step(Operation("object", k, 0),
               object_ctor([rc |-> SetAt(op_g.rc, NextId, 1), hs |-> op_g.hs], k, NextId))
  /\ op_g_0' = [op_g_0 EXCEPT !.used = @ \cup {NextId}]

\* h5::object h; (id 0)
ConstructDefault ==
  /\ \E k \in Slots :
       /\ ~op_g.hs[k].live
       /\ Step(Operation("object", k, 0), object_ctor(op_g, k, 0))
  /\ UNCHANGED op_g_0

\* h5::object::from_borrowed(id) for a valid id
FromBorrowed ==
  /\ \E k \in Slots : \E id \in Ids :
       /\ ~op_g.hs[k].live
       /\ H5Iis_valid(op_g.rc, id)
       /\ Step(Operation("from_borrowed", k, 0), from_borrowed(op_g, k, id))
  /\ UNCHANGED op_g_0

CopyConstruct ==
  /\ \E k \in Slots : \E x \in Slots :
       /\ ~op_g.hs[k].live /\ op_g.hs[x].live
       /\ Step(Operation("copy", k, x), object_copy_ctor(op_g, k, x))
  /\ UNCHANGED op_g_0

MoveConstruct ==
  /\ \E k \in Slots : \E x \in Slots :
       /\ ~op_g.hs[k].live /\ op_g.hs[x].live
       /\ Step(Operation("move", k, x), object_move_ctor(op_g, k, x))
  /\ UNCHANGED op_g_0

\* a = x, a = a included
CopyAssign ==
  /\ \E a \in Slots : \E x \in Slots :
       /\ op_g.hs[a].live /\ op_g.hs[x].live
       /\ Step(Operation("copy_assign", a, x), object_copy_assign(op_g, a, x))
  /\ UNCHANGED op_g_0

\* a = std::move(x), a = std::move(a) included
MoveAssign ==
  /\ \E a \in Slots : \E x \in Slots :
       /\ op_g.hs[a].live /\ op_g.hs[x].live
       /\ Step(Operation("move_assign", a, x), object_move_assign(op_g, a, x))
  /\ UNCHANGED op_g_0

Close ==
  /\ \E a \in Slots :
       /\ op_g.hs[a].live
       /\ Step(Operation("close", a, 0), object_close(op_g, a))
  /\ UNCHANGED op_g_0

Destroy ==
  /\ \E a \in Slots :
       /\ op_g.hs[a].live
       /\ Step(Operation("destroy", a, 0), object_dtor(op_g, a))
  /\ UNCHANGED op_g_0

\* h5::hdf5_type<T>(): the datatype is a temporary in the slot k
CallHdf5Type ==
  /\ op_pc \in {"run", "dropped"}
  /\ \E k \in Slots : \E T \in ObjectTypes :
       /\ ~op_g.hs[k].live
       /\ T = "bool" => Ids \ op_g_0.used # {}
       /\ op_g' = hdf5_type_object(op_g, k, T, NextId)
       /\ op_in' = [Operation("hdf5_type", k, 0) EXCEPT
                      !.T = T, !.created = hid_t_of(op_g.rc, T, NextId).created]
       /\ op_g_0' = [used    |-> op_g_0.used \cup hid_t_of(op_g.rc, T, NextId).created,
                     outside |-> [id \in Ids |->
                                    IF id \in hid_t_of(op_g.rc, T, NextId).created
                                    THEN 1 ELSE op_g_0.outside[id]]]
  /\ op_out' = op_g
  /\ op_pc' = "typed"
  /\ UNCHANGED stridesVars
  /\ UNCHANGED ioVars
  /\ UNCHANGED codecVars
  /\ UNCHANGED serialVars

\* the temporary datatype is destroyed at the end of the statement
DropHdf5Type ==
  /\ op_pc = "typed"
  /\ op_g' = object_dtor(op_g, op_in.a)
  /\ op_pc' = "dropped"
  /\ UNCHANGED <<op_g_0, op_in, op_out>>
  /\ UNCHANGED stridesVars
  /\ UNCHANGED ioVars
  /\ UNCHANGED codecVars
  /\ UNCHANGED serialVars

ObjectNext ==
  \/ ConstructOwning
  \/ ConstructDefault
  \/ FromBorrowed
  \/ CopyConstruct
  \/ MoveConstruct
  \/ CopyAssign
  \/ MoveAssign
  \/ Close
  \/ Destroy
  \/ CallHdf5Type
  \/ DropHdf5Type

SpecObject == ObjectInit /\ [][ObjectNext]_vars

\* a closed or moved-from handle stores the id 0, and closing a handle of the
\* id 0 changes no reference count
ClosedHandles ==
  /\ op_in.op \in {"close"} => op_g.hs[op_in.a].id = 0
  /\ op_in.op \in {"move", "move_assign"} => op_g.hs[op_in.x].id = 0
  /\ (op_in.op = "close" /\ op_out.hs[op_in.a].id = 0) => op_g.rc = op_out.rc

\* no id that a live handle stores has been released
NeverReleasedEarlier ==
  \A k \in Slots : (op_g.hs[k].live /\ op_g.hs[k].id # 0) => H5Iis_valid(op_g.rc, op_g.hs[k].id)

\* C26 as stated: after any sequence of handle operations the reference count
\* of every valid id that handles store equals the number of live handles
\* that store it; a closed or moved-from handle stores id 0 and closing it
\* again changes nothing.
C26_Original ==
  /\ \A id \in Ids :
       (H5Iis_valid(op_g.rc, id) /\ HandlesOf(op_g.hs, id) > 0)
         => op_g.rc[id] = HandlesOf(op_g.hs, id)
  /\ NeverReleasedEarlier
  /\ ClosedHandles

\* C26, amended: the reference count of every valid id equals the number of
\* live handles that store it plus the number of references that no handle
\* owns (the library's reference to a predefined id, the reference of the
\* call that created an id and lent it to from_borrowed); no id is released
\* while a live handle stores it; a closed or moved-from handle stores id 0
\* and closing it again changes nothing.
C26_ReferenceCount ==
  /\ \A id \in Ids :
       H5Iis_valid(op_g.rc, id) => op_g.rc[id] = HandlesOf(op_g.hs, id) + op_g_0.outside[id]
  /\ \A id \in Ids :
       ~H5Iis_valid(op_g.rc, id) => HandlesOf(op_g.hs, id) = 0 /\ op_g_0.outside[id] = 0
  /\ NeverReleasedEarlier
  /\ ClosedHandles

\* two handles of one id made by the owning constructor and a copy, after the
\* move assignment of one to the other: one handle and one reference are left
C26_Witness ==
  /\ op_in.op = "move_assign"
  /\ op_in.a # op_in.x
  /\ op_out.hs[op_in.a].id = op_out.hs[op_in.x].id
  /\ op_out.hs[op_in.a].id \notin PredefinedIds \cup {0}
  /\ op_out.rc[op_out.hs[op_in.a].id] = 2
  /\ op_g.rc[op_out.hs[op_in.a].id] = 1
  /\ HandlesOf(op_g.hs, op_out.hs[op_in.a].id) = 1

\* C30: once the datatype returned by hdf5_type<T>() has been destroyed, every
\* id that the call created has been released and the reference count of
\* every other id is what it was before the call.
C30_ReferenceNeutral ==
  op_pc = "dropped" =>
    \A id \in Ids :
      IF id \in op_in.created THEN op_g.rc[id] = 0 ELSE op_g.rc[id] = op_out.rc[id]

(***************************************************************************)
(* The thread scenario: two threads, each in a read of its own container,  *)
(* call get_name_of_h5_type for the datatype of their view.  The steps of  *)
(* a call are its accesses to the table h5_name_table of the process: the  *)
(* test h5_name_table.empty(), the assignment in init_h5_name_table and    *)
(* the search with std::find_if.  op_g is the table with the threads that  *)
(* are writing and reading it, op_in the position and the datatype of each *)
(* thread, op_out what each call returned, op_g_0 the record of accesses.  *)
(***************************************************************************)
Threads == {"t1", "t2"}

LookedUpTypes == { H5T_NATIVE_INT, H5T_NATIVE_DOUBLE, H5T_IEEE_F16LE }

ThreadInit ==
  /\ StridesIdle
  /\ IoIdle
  /\ CodecIdle
  /\ SerialIdle
  /\ op_pc = "threads"
  /\ op_g = [entries |-> {}, writers |-> {}, readers |-> {}]
  /\ op_g_0 = [inits |-> {}, read_begun |-> FALSE, overlap |-> FALSE, late_write |-> FALSE]
  /\ \E dts \in [Threads -> LookedUpTypes] :
       op_in = [t \in Threads |-> [pc |-> "call", dt |-> dts[t], raced |-> FALSE]]
  /\ op_out = [t \in Threads |-> "none"]

ThreadStep(t, pc, raced) ==
  /\ op_in' = [op_in EXCEPT ![t] = [pc |-> pc, dt |-> op_in[t].dt, raced |-> op_in[t].raced \/ raced]]
  /\ UNCHANGED op_pc
  /\ UNCHANGED stridesVars
  /\ UNCHANGED ioVars
  /\ UNCHANGED codecVars
  /\ UNCHANGED serialVars

\* if (h5_name_table.empty()) ...: while another thread assigns the table the
\* test reads what is being written (a data race) and gives either answer
TestEmpty(t) ==
  /\ op_in[t].pc = "call"
  /\ \E empty \in BOOLEAN :
       /\ op_g.writers = {} => empty = (op_g.entries = {})
       /\ ThreadStep(t, IF empty THEN "init" ELSE "find", op_g.writers # {})
  /\ op_g_0' = [op_g_0 EXCEPT !.read_begun = TRUE,
                              !.overlap = @ \/ op_g.writers # {}]
  /\ UNCHANGED <<op_g, op_out>>

\* init_h5_name_table(): the assignment to h5_name_table begins
BeginInit(t) ==
  /\ op_in[t].pc = "init"
  /\ ThreadStep(t, "assigning", op_g.writers # {} \/ op_g.readers # {})
  /\ op_g' = [op_g EXCEPT !.writers = @ \cup {t}]
  /\ op_g_0' = [inits      |-> op_g_0.inits \cup {t},
                read_begun |-> op_g_0.read_begun,
                overlap    |-> op_g_0.overlap \/ op_g.writers # {} \/ op_g.readers # {},
                late_write |-> op_g_0.late_write \/ op_g.entries # {} \/ op_g.readers # {}]
  /\ UNCHANGED op_out

\* the assignment ends: the table holds its entries
EndInit(t) ==
  /\ op_in[t].pc = "assigning"
  /\ ThreadStep(t, "find", FALSE)
  /\ op_g' = [op_g EXCEPT !.writers = @ \ {t}, !.entries = h5_name_table]
  /\ UNCHANGED <<op_g_0, op_out>>

\* std::find_if(h5_name_table.begin(), _end, ...) begins
BeginFind(t) ==
  /\ op_in[t].pc = "find"
  /\ ThreadStep(t, "finding", op_g.writers # {})
  /\ op_g' = [op_g EXCEPT !.readers = @ \cup {t}]
  /\ op_g_0' = [op_g_0 EXCEPT !.overlap = @ \/ op_g.writers # {}]
  /\ UNCHANGED op_out

\* the call returns the name or throws std::logic_error; after a data race on
\* the table it may do either or fault
EndFind(t) ==
  /\ op_in[t].pc = "finding"
  /\ ThreadStep(t, "done", op_g.writers # {})
  /\ op_g' = [op_g EXCEPT !.readers = @ \ {t}]
  /\ op_g_0' = [op_g_0 EXCEPT !.overlap = @ \/ op_g.writers # {}]
  /\ \E result \in {"name", "logic_error", "fault"} :
       /\ (~op_in[t].raced /\ op_g.writers = {}) =>
            result = (IF get_name_of_h5_type_ok(op_in[t].dt) THEN "name" ELSE "logic_error")
       /\ op_out' = [op_out EXCEPT ![t] = result]

ThreadNext ==
  \E t \in Threads : TestEmpty(t) \/ BeginInit(t) \/ EndInit(t) \/ BeginFind(t) \/ EndFind(t)

SpecThreads == ThreadInit /\ [][ThreadNext]_vars

\* C27: when two threads each read from their own container and both reads
\* reach get_name_of_h5_type, the table of type names is initialised by one
\* thread only and exactly once when both calls have returned, no write to it
\* begins after a read of it has begun or overlaps a read or another write.
C27_TableInitialisedOnce ==
  /\ Cardinality(op_g_0.inits) <= 1
  /\ (\A t \in Threads : op_in[t].pc = "done") => Cardinality(op_g_0.inits) = 1
  /\ ~op_g_0.overlap
  /\ ~op_g_0.late_write

====
